---- MODULE Spec2Model ----
(***************************************************************************)
(* Webhook notification middleware of ofelia: the global dispatcher        *)
(* (middlewares/webhook.go), the per-job dispatcher                        *)
(* (middlewares/webhook_perjob.go), the definition registry and the        *)
(* delivery engine (retry with exponential backoff).                       *)
(*                                                                         *)
(* One behaviour is one job completion handled by one dispatcher: Run      *)
(* calls ctx.Next(), the wrapped pipeline returns, Run stops the           *)
(* execution, classifies, spawns delivery goroutines and returns; the      *)
(* goroutines then render and deliver on their own.                        *)
(*                                                                         *)
(* Durations are counted in seconds.  time.Duration is a 64-bit signed     *)
(* integer; the model keeps the two's-complement wrap but narrows the      *)
(* width to DurBits bits so that the overflow of `backoff *= 2` is within  *)
(* reach of the model checker.                                             *)
(***************************************************************************)
EXTENDS Integers, Sequences, FiniteSets, TLC

VARIABLES
    registry,   \* WebhookRegistry.webhooks: name -> definition
    disp,       \* the dispatcher attached to the job (Webhook or PerJobWebhook)
    exec,       \* ctx.Execution: [IsRunning, Failed]
    pc,         \* position of Run
    err,        \* Run's local `err` (the value ctx.Next() returned)
    ret,        \* the value Run returned
    webhooks,   \* PerJobWebhook.Run's local `webhooks`
    idx,        \* PerJobWebhook.Run's loop position in `webhooks`
    tasks,      \* the delivery goroutines spawned so far, in spawn order
    nextRet,    \* observation: the value the wrapped pipeline returned
    decision,   \* observation: what the global dispatcher's classification decided
    runFailed,  \* observation: ctx.Execution.Failed as Run read it
    file,       \* the webhooks of the config file, as json.Unmarshal yields them
    lpc,        \* position of LoadWebhookMiddlewares
    mws,        \* the middlewares LoadWebhookMiddlewares returned, in order
    loadErr,    \* the error parseWebhookConfigFile returned
    webhookDefs,\* LoadWebhookMiddlewares: the definitions parsed, then sorted
    di,         \* LoadWebhookMiddlewares: index of its loop over webhookDefs
    cfg,        \* the last call of NewWebhookFromConfig: its arguments and result
    frames,     \* the Run calls of the global dispatchers attached to one job
    acted,      \* observation: the dispatchers of `frames` in the order they classified
    calls,      \* observation: the arguments of the Register calls so far, in order
    tr,         \* a call of truncateString: its arguments and its outcome
    runs        \* the execution records of the job completions before this one

vars == <<registry, disp, exec, pc, err, ret, webhooks, idx, tasks,
          nextRet, decision, runFailed,
          file, lpc, mws, loadErr, webhookDefs, di, cfg, frames, acted,
          calls, tr, runs>>

(* What one job completion under one dispatcher leaves alone *)
auxVars == <<file, lpc, mws, loadErr, webhookDefs, di, cfg, frames, acted,
            calls, tr, runs>>

(* What the loader, the chain and NewWebhookFromConfig leave alone *)
extVars == <<calls, tr, runs>>

---------------------------------------------------------------------------
(* Bounds of the model *)

(* retry.count ranges over -MinRetry..MaxRetry: the loader takes any int *)
MaxRetry == 2
MinRetry == 2
(* Names a per-job dispatcher refers to, error-names and info-names together *)
MaxNames == 2
(* Width of time.Duration in the model *)
DurBits == 6
(* Job completions after the first one *)
MaxRuns == 1
(* Widths given to truncate: (0 - MinWidth)..MaxWidth *)
MaxWidth == 6
MinWidth == 1
(* Length of the strings given to truncate, the examples of the tests apart *)
MaxStr == 4
(* Register calls on one registry *)
MaxCalls == 3

(* Program constants *)

defaultRetryCount == 0
defaultRetryBackoff == 1

WebhookTypeError == "error"
WebhookTypeInfo == "info"
WebhookTypeAll == "all"

Types == {WebhookTypeError, WebhookTypeInfo, WebhookTypeAll}

Names == {"w1", "w2"}

---------------------------------------------------------------------------
(* Errors.  nil is NoErr; the wrapped pipeline may return JobErr. *)

NoErr == [kind |-> "nil", code |-> 0]
JobErr == [kind |-> "job", code |-> 0]

(* What one HTTP exchange can yield: 0 stands for a transport failure (no  *)
(* response), any other number is the status code of the response.         *)
Outcomes == {0, 199, 200, 299, 300, 500}

---------------------------------------------------------------------------
(* time.Duration arithmetic *)

RECURSIVE Pow2(_)
Pow2(n) == IF n <= 0 THEN 1 ELSE 2 * Pow2(n - 1)

DurHalf == Pow2(DurBits - 1)

Wrap(x) == ((x + DurHalf) % (2 * DurHalf)) - DurHalf

(* retry.backoff strings of the model and what time.ParseDuration makes of *)
(* them; "bad" is a malformed duration.                                    *)
BackoffStrings == {"", "bad", "-1s", "0s", "1s", "3s", "20s"}

ParseDuration(s) ==
    CASE s = "-1s" -> [ok |-> TRUE, d |-> -1]
      [] s = "0s"  -> [ok |-> TRUE, d |-> 0]
      [] s = "1s"  -> [ok |-> TRUE, d |-> 1]
      [] s = "3s"  -> [ok |-> TRUE, d |-> 3]
      [] s = "20s" -> [ok |-> TRUE, d |-> 20]
      [] OTHER     -> [ok |-> FALSE, d |-> 0]

---------------------------------------------------------------------------
(* Definitions *)

NoRetry == [set |-> FALSE, count |-> 0, backoff |-> ""]

Retries ==
    {NoRetry} \cup
    [set : {TRUE}, count : (0 - MinRetry)..MaxRetry, backoff : BackoffStrings]

(* Templates.  A url, a header value and a string body are template text; *)
(* an object or array body is the text json.Marshal makes of it; a body    *)
(* of any other JSON type is kept as it is.                                *)
PlainURL == "http://h"
NoHeaders == <<>>
NoBody == [kind |-> "nil", text |-> ""]

WebhookDefinition ==
    [name : Names, type : Types, active : BOOLEAN, onlyOnError : BOOLEAN,
     retry : Retries,
     url : {PlainURL}, headers : {NoHeaders}, body : {NoBody}]


(* The Webhook struct NewWebhookFromDefinition builds (method, timeout,    *)
(* logger and client take no part in dispatch, rendering or retry).        *)
NoWebhook ==
    [name |-> "", webhookType |-> "", active |-> FALSE, onlyOnError |-> FALSE,
     retryCount |-> 0, retryBackoff |-> 0,
     url |-> "", headers |-> NoHeaders, body |-> NoBody]

NewWebhookFromDefinition(def) ==
    LET retryCount == IF def.retry.set THEN def.retry.count ELSE defaultRetryCount
        parsed == ParseDuration(def.retry.backoff)
        failed == def.retry.set /\ def.retry.backoff # "" /\ ~parsed.ok
        retryBackoff == IF def.retry.set /\ def.retry.backoff # ""
                        THEN parsed.d ELSE defaultRetryBackoff
    IN  IF failed
        THEN [ok |-> FALSE, w |-> NoWebhook]
        ELSE [ok |-> TRUE,
              w |-> [name |-> def.name, webhookType |-> def.type,
                     active |-> def.active, onlyOnError |-> def.onlyOnError,
                     retryCount |-> retryCount, retryBackoff |-> retryBackoff,
                     url |-> def.url, headers |-> def.headers, body |-> def.body]]

(* WebhookRegistry.Get *)
Get(reg, name) ==
    IF name \in DOMAIN reg
    THEN [ok |-> TRUE, def |-> reg[name]]
    ELSE [ok |-> FALSE, def |-> CHOOSE d \in WebhookDefinition : TRUE]

(* Mutant of NamesValid: a referenced definition must also be active *)
NamesValidActive(reg, names, accepted) ==
    \A i \in 1..Len(names) :
        /\ Get(reg, names[i]).ok
        /\ Get(reg, names[i]).def.type \in accepted
        /\ Get(reg, names[i]).def.active

(* The two validation loops of NewWebhookFromConfig: every name must be    *)
(* registered with one of the types the list accepts.                      *)
NamesValid(reg, names, accepted) ==
    \A i \in 1..Len(names) :
        /\ Get(reg, names[i]).ok
        /\ Get(reg, names[i]).def.type \in accepted

NewWebhookFromConfig(errorNames, infoNames, reg) ==
    IF Len(errorNames) = 0 /\ Len(infoNames) = 0
    THEN [ok |-> TRUE, nil |-> TRUE, errorWebhooks |-> <<>>, infoWebhooks |-> <<>>]
    ELSE IF ~NamesValid(reg, errorNames, {WebhookTypeError, WebhookTypeAll})
    THEN [ok |-> FALSE, nil |-> TRUE, errorWebhooks |-> <<>>, infoWebhooks |-> <<>>]
    ELSE IF ~NamesValid(reg, infoNames, {WebhookTypeInfo, WebhookTypeAll})
    THEN [ok |-> FALSE, nil |-> TRUE, errorWebhooks |-> <<>>, infoWebhooks |-> <<>>]
    ELSE [ok |-> TRUE, nil |-> FALSE,
          errorWebhooks |-> [i \in 1..Len(errorNames) |-> Get(reg, errorNames[i]).def],
          infoWebhooks |-> [i \in 1..Len(infoNames) |-> Get(reg, infoNames[i]).def]]

---------------------------------------------------------------------------
(* The execution context (core.Context, outside this package) *)

(* ctx.Stop(err): a running execution is stopped and marked failed when    *)
(* err is not nil; a stopped execution is left as it is.                   *)
CtxStop(e, x) ==
    IF ~x.IsRunning
    THEN x
    ELSE [IsRunning |-> FALSE, Failed |-> (e # NoErr)]

---------------------------------------------------------------------------
(* Webhook.Run: classification *)

(* Mutant of ShouldSend: an error webhook matches every outcome *)
ShouldSendErrorAlways(w, failed) ==
    IF w.webhookType = WebhookTypeAll THEN TRUE
    ELSE IF w.webhookType = WebhookTypeError THEN TRUE
    ELSE IF ~failed /\ w.webhookType = WebhookTypeInfo THEN TRUE
    ELSE FALSE

(* Mutant of ShouldSend: an info webhook matches every outcome *)
ShouldSendInfoAlways(w, failed) ==
    IF w.webhookType = WebhookTypeAll THEN TRUE
    ELSE IF failed /\ w.webhookType = WebhookTypeError THEN TRUE
    ELSE IF w.webhookType = WebhookTypeInfo THEN TRUE
    ELSE FALSE

(* Mutant of ShouldSend: the branch for type all is missing *)
ShouldSendNoAll(w, failed) ==
    IF failed /\ w.webhookType = WebhookTypeError THEN TRUE
    ELSE IF ~failed /\ w.webhookType = WebhookTypeInfo THEN TRUE
    ELSE FALSE

ShouldSend(w, failed) ==
    IF w.webhookType = WebhookTypeAll THEN TRUE
    ELSE IF failed /\ w.webhookType = WebhookTypeError THEN TRUE
    ELSE IF ~failed /\ w.webhookType = WebhookTypeInfo THEN TRUE
    ELSE FALSE

(* Mutant of GlobalDecision: the active flag is not looked at *)
GlobalDecisionNoActive(w, failed) ==
    IF ~ShouldSend(w, failed) THEN "mismatch"
    ELSE IF w.onlyOnError /\ ~failed THEN "onlyOnError"
    ELSE "send"

(* Mutant of GlobalDecision: onlyOnError selects every failed job by itself *)
GlobalDecisionForce(w, failed) ==
    IF ~w.active THEN "inactive"
    ELSE IF w.onlyOnError /\ failed THEN "send"
    ELSE IF ~ShouldSend(w, failed) THEN "mismatch"
    ELSE IF w.onlyOnError /\ ~failed THEN "onlyOnError"
    ELSE "send"

GlobalDecision(w, failed) ==
    IF ~w.active THEN "inactive"
    ELSE IF ~ShouldSend(w, failed) THEN "mismatch"
    ELSE IF w.onlyOnError /\ ~failed THEN "onlyOnError"
    ELSE "send"

---------------------------------------------------------------------------
(* Delivery goroutines *)

(* Template data before buildTemplateData has run *)
NoData == [built |-> FALSE, IsRunning |-> FALSE, Failed |-> FALSE, Success |-> FALSE]

(* A goroutine that has been started by a go statement.  ctx tells which   *)
(* job completion's context it holds: the number of completions before it. *)
(* data is the template data it builds; url, headers and body are what it  *)
(* renders and field names the template whose rendering failed.  attempts, *)
(* sleeps, errs and codes observe the requests made, the sleeps taken, the *)
(* error of each request and the outcome of each exchange.                 *)
NewTask(kind, def, w) ==
    [kind |-> kind, def |-> def, w |-> w, pc |-> "new", ctx |-> Len(runs),
     data |-> NoData, url |-> "", headers |-> NoHeaders, body |-> "", field |-> "",
     attempt |-> 0, backoff |-> 0, lastErr |-> NoErr,
     result |-> "none", reported |-> NoErr,
     attempts |-> 0, sleeps |-> <<>>, errs |-> <<>>, codes |-> <<>>]

(* Mutant of sendRequest: the upper bound of the status check is          *)
(* inclusive                                                               *)
sendRequestInclusive(o) ==
    IF o = 0 THEN [kind |-> "transport", code |-> 0]
    ELSE IF o < 200 \/ o > 300 THEN [kind |-> "status", code |-> o]
    ELSE NoErr

(* Webhook.sendRequest on an exchange with outcome o *)
sendRequest(o) ==
    IF o = 0 THEN [kind |-> "transport", code |-> 0]
    ELSE IF o < 200 \/ o >= 300 THEN [kind |-> "status", code |-> o]
    ELSE NoErr

(* The head of sendWithRetry's loop: `attempt <= w.retryCount` *)
LoopContinues(t) == t.attempt <= t.w.retryCount

(* sendWithRetry returns e: sendWebhook logs the outcome and ends *)
Finish(t, e) ==
    [t EXCEPT !.pc = "done", !.reported = e,
              !.result = IF e = NoErr THEN "sent" ELSE "failed"]

(* The loop is at its head with t.attempt already set *)
LoopHead(t) ==
    IF ~LoopContinues(t) THEN Finish(t, t.lastErr)
    ELSE IF t.attempt > 0 THEN [t EXCEPT !.pc = "sleep"]
    ELSE [t EXCEPT !.pc = "send"]


---------------------------------------------------------------------------
(* Initial states: a dispatcher has been constructed and attached to a     *)
(* job whose execution is either running or was stopped by an earlier      *)
(* middleware (ContinueOnStop is true for both dispatchers).               *)

Unset == [kind |-> "unset", code |-> 0]

ExecStates ==
    {[IsRunning |-> TRUE, Failed |-> FALSE]} \cup
    [IsRunning : {FALSE}, Failed : BOOLEAN]

(* Sequences of names of length at most n *)
RECURSIVE NameSeqs(_)
NameSeqs(n) ==
    IF n = 0 THEN {<<>>}
    ELSE NameSeqs(n - 1) \cup
         {Append(s, x) : s \in {q \in NameSeqs(n - 1) : Len(q) = n - 1}, x \in Names}

(* One definition loaded from the file, whose dispatcher the loader built *)
GlobalDefs ==
    {d \in [name : {"w1"}, type : Types, active : BOOLEAN, onlyOnError : BOOLEAN,
            retry : Retries,
            url : {PlainURL}, headers : {NoHeaders}, body : {NoBody}] :
        NewWebhookFromDefinition(d).ok}

(* The definitions a per-job dispatcher refers to keep the default retry *)
PerJobDefs(n) ==
    [name : {n}, type : Types, active : BOOLEAN, onlyOnError : BOOLEAN,
     retry : {NoRetry},
     url : {PlainURL}, headers : {NoHeaders}, body : {NoBody}]

PerJobRegistries ==
    {[n \in Names |-> IF n = "w1" THEN a ELSE b] :
        a \in PerJobDefs("w1"), b \in PerJobDefs("w2")}

InitGlobal ==
    \E d \in GlobalDefs :
        /\ registry = [n \in {d.name} |-> d]
        /\ disp = [kind |-> "global", def |-> d, w |-> NewWebhookFromDefinition(d).w,
                   errorWebhooks |-> <<>>, infoWebhooks |-> <<>>]

InitPerJob ==
    \E r \in PerJobRegistries, en \in NameSeqs(MaxNames), inn \in NameSeqs(MaxNames) :
        LET c == NewWebhookFromConfig(en, inn, r) IN
        /\ Len(en) + Len(inn) <= MaxNames
        /\ c.ok /\ ~c.nil
        /\ registry = r
        /\ disp = [kind |-> "perjob", def |-> r["w1"], w |-> NoWebhook,
                   errorWebhooks |-> c.errorWebhooks, infoWebhooks |-> c.infoWebhooks]

(* No file is being loaded, no per-job configuration is being resolved and *)
(* no chain of dispatchers is attached.                                    *)
NoConfig ==
    [state |-> "none", errorNames |-> <<>>, infoNames |-> <<>>,
     errorWebhooks |-> <<>>, infoWebhooks |-> <<>>]

(* No config file at the resolved path *)
NoFile == [exists |-> FALSE, wellformed |-> FALSE, webhooks |-> <<>>]

(* truncateString has not been called *)
NoTruncate == [state |-> "none", maxLen |-> 0, s |-> <<>>, out |-> <<>>]

ExtIdle ==
    /\ calls = <<>>
    /\ tr = NoTruncate
    /\ runs = <<>>

AuxIdle ==
    /\ ExtIdle
    /\ file = NoFile
    /\ lpc = "off"
    /\ mws = <<>>
    /\ loadErr = NoErr
    /\ webhookDefs = <<>>
    /\ di = 0
    /\ cfg = NoConfig
    /\ frames = <<>>
    /\ acted = <<>>

(* The loader and NewWebhookFromConfig are not running *)
LoadIdle ==
    /\ file = NoFile
    /\ lpc = "off"
    /\ mws = <<>>
    /\ loadErr = NoErr
    /\ webhookDefs = <<>>
    /\ di = 0
    /\ cfg = NoConfig
    /\ frames = <<>>
    /\ acted = <<>>

Init ==
    /\ InitGlobal \/ InitPerJob
    /\ exec \in ExecStates
    /\ pc = "idle"
    /\ err = Unset
    /\ ret = Unset
    /\ webhooks = <<>>
    /\ idx = 0
    /\ tasks = <<>>
    /\ nextRet = Unset
    /\ decision = "none"
    /\ runFailed = FALSE
    /\ AuxIdle

---------------------------------------------------------------------------
(* Run of either dispatcher *)

(* Run calls ctx.Next() *)
RunStart ==
    /\ pc = "idle"
    /\ pc' = "next"
    /\ UNCHANGED auxVars
    /\ UNCHANGED <<registry, disp, exec, err, ret, webhooks, idx, tasks,
                   nextRet, decision, runFailed>>

(* The wrapped pipeline finishes: it returns nil or an error, and may have *)
(* stopped a running execution itself, as failed or not.                   *)
NextReturn ==
    /\ pc = "next"
    /\ \E e \in {NoErr, JobErr} :
        /\ err' = e
        /\ nextRet' = e
    /\ \E x \in ExecStates :
        /\ x = exec \/ (exec.IsRunning /\ ~x.IsRunning)
        /\ exec' = x
    /\ pc' = "stop"
    /\ UNCHANGED auxVars
    /\ UNCHANGED <<registry, disp, ret, webhooks, idx, tasks, decision, runFailed>>

(* Mutant of WebhookRun: Run classifies and sends before the job has run *)
WebhookRunEarly ==
    /\ pc \in {"idle", "stop"}
    /\ disp.kind = "global"
    /\ LET x == CtxStop(err, exec)
           d == GlobalDecision(disp.w, x.Failed)
       IN  /\ exec' = x
           /\ runFailed' = x.Failed
           /\ decision' = d
           /\ IF d = "send"
              THEN /\ tasks' = Append(tasks, NewTask("global", disp.def, disp.w))
                   /\ pc' = "ret"
                   /\ ret' = ret
              ELSE /\ tasks' = tasks
                   /\ pc' = "returned"
                   /\ ret' = err
    /\ UNCHANGED auxVars
    /\ UNCHANGED <<registry, disp, err, webhooks, idx, nextRet>>

(* Webhook.Run from ctx.Stop(err) on: the three skip branches return err,  *)
(* the last one starts the goroutine.                                      *)
WebhookRun ==
    /\ pc = "stop"
    /\ disp.kind = "global"
    /\ LET x == CtxStop(err, exec)
           d == GlobalDecision(disp.w, x.Failed)
       IN  /\ exec' = x
           /\ runFailed' = x.Failed
           /\ decision' = d
           /\ IF d = "send"
              THEN /\ tasks' = Append(tasks, NewTask("global", disp.def, disp.w))
                   /\ pc' = "ret"
                   /\ ret' = ret
              ELSE /\ tasks' = tasks
                   /\ pc' = "returned"
                   /\ ret' = err
    /\ UNCHANGED auxVars
    /\ UNCHANGED <<registry, disp, err, webhooks, idx, nextRet>>

(* Mutant of WebhookReturn: the error of the job is swallowed *)
WebhookReturnNil ==
    /\ pc = "ret"
    /\ disp.kind = "global"
    /\ ret' = NoErr
    /\ pc' = "returned"
    /\ UNCHANGED auxVars
    /\ UNCHANGED <<registry, disp, exec, err, webhooks, idx, tasks,
                   nextRet, decision, runFailed>>

(* Mutant of WebhookReturn: Run waits for its delivery goroutine *)
WebhookReturnWaits ==
    /\ pc = "ret"
    /\ disp.kind = "global"
    /\ \A i \in 1..Len(tasks) : tasks[i].pc = "done"
    /\ ret' = err
    /\ pc' = "returned"
    /\ UNCHANGED auxVars
    /\ UNCHANGED <<registry, disp, exec, err, webhooks, idx, tasks,
                   nextRet, decision, runFailed>>

(* Webhook.Run's `return err` after the go statement *)
WebhookReturn ==
    /\ pc = "ret"
    /\ disp.kind = "global"
    /\ ret' = err
    /\ pc' = "returned"
    /\ UNCHANGED auxVars
    /\ UNCHANGED <<registry, disp, exec, err, webhooks, idx, tasks,
                   nextRet, decision, runFailed>>

(* Mutant of PerJobSelect: the two lists are swapped *)
PerJobSelectSwapped ==
    /\ pc = "stop"
    /\ disp.kind = "perjob"
    /\ LET x == CtxStop(err, exec)
       IN  /\ exec' = x
           /\ runFailed' = x.Failed
           /\ webhooks' = IF x.Failed THEN disp.infoWebhooks ELSE disp.errorWebhooks
    /\ idx' = 1
    /\ pc' = "loop"
    /\ UNCHANGED auxVars
    /\ UNCHANGED <<registry, disp, err, ret, tasks, nextRet, decision>>

(* PerJobWebhook.Run from ctx.Stop(err) to the choice of the list *)
PerJobSelect ==
    /\ pc = "stop"
    /\ disp.kind = "perjob"
    /\ LET x == CtxStop(err, exec)
       IN  /\ exec' = x
           /\ runFailed' = x.Failed
           /\ webhooks' = IF x.Failed THEN disp.errorWebhooks ELSE disp.infoWebhooks
    /\ idx' = 1
    /\ pc' = "loop"
    /\ UNCHANGED auxVars
    /\ UNCHANGED <<registry, disp, err, ret, tasks, nextRet, decision>>

(* Mutant of PerJobIter: the per-job dispatcher applies the onlyOnError    *)
(* check of the global dispatcher.                                         *)
PerJobIterLegacy ==
    /\ pc = "loop"
    /\ disp.kind = "perjob"
    /\ idx <= Len(webhooks)
    /\ LET def == webhooks[idx]
       IN  tasks' = IF ~def.active \/ (def.onlyOnError /\ ~runFailed) THEN tasks
                    ELSE Append(tasks, NewTask("perjob", def, NoWebhook))
    /\ idx' = idx + 1
    /\ UNCHANGED auxVars
    /\ UNCHANGED <<registry, disp, exec, pc, err, ret, webhooks,
                   nextRet, decision, runFailed>>

(* One iteration of PerJobWebhook.Run's loop *)
PerJobIter ==
    /\ pc = "loop"
    /\ disp.kind = "perjob"
    /\ idx <= Len(webhooks)
    /\ LET def == webhooks[idx]
       IN  tasks' = IF ~def.active THEN tasks
                    ELSE Append(tasks, NewTask("perjob", def, NoWebhook))
    /\ idx' = idx + 1
    /\ UNCHANGED auxVars
    /\ UNCHANGED <<registry, disp, exec, pc, err, ret, webhooks,
                   nextRet, decision, runFailed>>

(* PerJobWebhook.Run's `return err` after the loop *)
PerJobReturn ==
    /\ pc = "loop"
    /\ disp.kind = "perjob"
    /\ idx > Len(webhooks)
    /\ ret' = err
    /\ pc' = "returned"
    /\ UNCHANGED auxVars
    /\ UNCHANGED <<registry, disp, exec, err, webhooks, idx, tasks,
                   nextRet, decision, runFailed>>

---------------------------------------------------------------------------
(* The delivery goroutine: sendWebhook of either dispatcher *)

(* buildTemplateData on the execution record x, as far as the templates   *)
(* of the model read it.                                                   *)
buildTemplateData(x) ==
    [built |-> TRUE, IsRunning |-> x.IsRunning, Failed |-> x.Failed,
     Success |-> ~x.Failed]

(* The text a template prints for a boolean *)
BoolText(b) == IF b THEN "true" ELSE "false"

(* Mutant of executeTemplate: the template reads the execution record as  *)
(* it is when the text is rendered, not the data it is given             *)
executeTemplateLive(templateStr, data) ==
    LET live == buildTemplateData(exec) IN
    CASE templateStr = "{{.Failed"
            -> [ok |-> FALSE, out |-> "", err |-> "template parse error"]
      [] templateStr = "{{.Nope}}"
            -> [ok |-> FALSE, out |-> "", err |-> "template execution error"]
      [] templateStr = "http://h/{{.Failed}}"
            -> [ok |-> TRUE, err |-> "",
                out |-> IF live.Failed THEN "http://h/true" ELSE "http://h/false"]
      [] templateStr = "{{.Success}}"
            -> [ok |-> TRUE, err |-> "", out |-> BoolText(live.Success)]
      [] templateStr = "failed={{.Failed}}"
            -> [ok |-> TRUE, err |-> "",
                out |-> IF live.Failed THEN "failed=true" ELSE "failed=false"]
      [] templateStr = "{\"failed\":\"{{.Failed}}\"}"
            -> [ok |-> TRUE, err |-> "",
                out |-> IF live.Failed THEN "{\"failed\":\"true\"}"
                        ELSE "{\"failed\":\"false\"}"]
      [] templateStr = "{\"out\":\"{{.Stdout}}\"}"
            -> [ok |-> TRUE, err |-> "", out |-> "{\"out\":\"say \"hi\"\"}"]
      [] OTHER
            -> [ok |-> TRUE, err |-> "", out |-> templateStr]

(* executeTemplate on the template texts of the model: one that does not   *)
(* parse, one that parses and fails in execution, some that read the data, *)
(* one that prints the output of the job, which is `say "hi"` in the       *)
(* model; any other text has no action and is rendered as it is.           *)
executeTemplate(templateStr, data) ==
    CASE templateStr = "{{.Failed"
            -> [ok |-> FALSE, out |-> "", err |-> "template parse error"]
      [] templateStr = "{{.Nope}}"
            -> [ok |-> FALSE, out |-> "", err |-> "template execution error"]
      [] templateStr = "http://h/{{.Failed}}"
            -> [ok |-> TRUE, err |-> "",
                out |-> IF data.Failed THEN "http://h/true" ELSE "http://h/false"]
      [] templateStr = "{{.Success}}"
            -> [ok |-> TRUE, err |-> "", out |-> BoolText(data.Success)]
      [] templateStr = "failed={{.Failed}}"
            -> [ok |-> TRUE, err |-> "",
                out |-> IF data.Failed THEN "failed=true" ELSE "failed=false"]
      [] templateStr = "{\"failed\":\"{{.Failed}}\"}"
            -> [ok |-> TRUE, err |-> "",
                out |-> IF data.Failed THEN "{\"failed\":\"true\"}"
                        ELSE "{\"failed\":\"false\"}"]
      [] templateStr = "{\"out\":\"{{.Stdout}}\"}"
            -> [ok |-> TRUE, err |-> "", out |-> "{\"out\":\"say \"hi\"\"}"]
      [] OTHER
            -> [ok |-> TRUE, err |-> "", out |-> templateStr]

(* json.Unmarshal accepts the text *)
ValidJSON(text) ==
    text \in {"{\"failed\":\"true\"}", "{\"failed\":\"false\"}", "{\"a\":1}"}

(* executeTemplateForBody: a string body is a template; an object or array *)
(* body is marshalled, rendered as a template and must then still be JSON; *)
(* any other body is rejected.                                             *)
executeTemplateForBody(body, data) ==
    LET r == executeTemplate(body.text, data)
    IN  CASE body.kind = "string" -> r
          [] body.kind = "object" ->
                IF ~r.ok THEN r
                ELSE IF ~ValidJSON(r.out)
                THEN [ok |-> FALSE, out |-> "", err |-> "template resulted in invalid JSON"]
                ELSE r
          [] OTHER -> [ok |-> FALSE, out |-> "", err |-> "unsupported body type"]

(* The header keys whose value fails to render *)
FailingKeys(headers, data) ==
    {k \in DOMAIN headers : ~executeTemplate(headers[k], data).ok}

(* ctx.Execution as task t sees it: the record of its own job completion *)
ExecOf(t) == IF t.ctx = Len(runs) THEN exec ELSE runs[t.ctx + 1]

(* Mutant of StartTask: a definition whose retry settings cannot be used   *)
(* is delivered with the default retry settings                            *)
StartTaskDefaultRetry(t, x) ==
    LET made == NewWebhookFromDefinition(t.def)
        dflt == NewWebhookFromDefinition([t.def EXCEPT !.retry = NoRetry])
    IN  [t EXCEPT !.w = IF t.kind # "perjob" THEN t.w
                        ELSE IF made.ok THEN made.w ELSE dflt.w,
                  !.data = buildTemplateData(x),
                  !.pc = "render"]

(* From the start of the goroutine to buildTemplateData on the execution   *)
(* record x.  The per-job goroutine first builds its Webhook from the      *)
(* definition and ends with a logged error if that fails.                  *)
StartTask(t, x) ==
    LET made == NewWebhookFromDefinition(t.def)
    IN  IF t.kind = "perjob" /\ ~made.ok
        THEN [t EXCEPT !.pc = "done", !.result = "createfail"]
        ELSE [t EXCEPT !.w = IF t.kind = "perjob" THEN made.w ELSE t.w,
                       !.data = buildTemplateData(x),
                       !.pc = "render"]

(* Mutant of TaskStart: the retry settings the goroutine has resolved are   *)
(* stored in the definition the registry holds                             *)
TaskStartWritesBack(i) ==
    /\ tasks[i].pc = "new"
    /\ tasks' = [tasks EXCEPT ![i] = StartTask(tasks[i], ExecOf(tasks[i]))]
    /\ registry' =
          IF tasks[i].def.name \in DOMAIN registry /\ tasks'[i].pc = "render"
          THEN [registry EXCEPT ![tasks[i].def.name].retry =
                    [set |-> TRUE, count |-> tasks'[i].w.retryCount, backoff |-> ""]]
          ELSE registry
    /\ UNCHANGED auxVars
    /\ UNCHANGED <<disp, exec, pc, err, ret, webhooks, idx,
                   nextRet, decision, runFailed>>

TaskStart(i) ==
    /\ tasks[i].pc = "new"
    /\ tasks' = [tasks EXCEPT ![i] = StartTask(tasks[i], ExecOf(tasks[i]))]
    /\ UNCHANGED auxVars
    /\ UNCHANGED <<registry, disp, exec, pc, err, ret, webhooks, idx,
                   nextRet, decision, runFailed>>

(* Mutant of RenderTask: the templates are rendered from the execution     *)
(* record as it is when each field is rendered                             *)
RenderTaskLive(t, k) ==
    LET live == buildTemplateData(exec)
        u == executeTemplate(t.w.url, live)
        b == IF t.w.body.kind = "nil" THEN [ok |-> TRUE, out |-> "", err |-> ""]
             ELSE executeTemplateForBody(t.w.body, live)
        failing == FailingKeys(t.w.headers, live)
    IN  IF ~u.ok
        THEN [t EXCEPT !.pc = "done", !.result = "renderfail", !.field = "url"]
        ELSE IF ~b.ok
        THEN [t EXCEPT !.pc = "done", !.result = "renderfail", !.field = "body"]
        ELSE IF failing # {}
        THEN [t EXCEPT !.pc = "done", !.result = "renderfail", !.field = k]
        ELSE LoopHead([t EXCEPT
                 !.url = u.out, !.body = b.out,
                 !.headers = [h \in DOMAIN t.w.headers |->
                                 executeTemplate(t.w.headers[h], live).out],
                 !.backoff = t.w.retryBackoff, !.attempt = 0])

(* The rendering of sendWebhook, url first, then the body unless it is     *)
(* nil, then the headers: the first error is logged and ends the           *)
(* goroutine, otherwise sendWithRetry is entered.  The headers are a Go    *)
(* map, ranged over in no fixed order: k is the failing key the loop meets *)
(* first when some header fails.                                           *)
RenderTask(t, k) ==
    LET u == executeTemplate(t.w.url, t.data)
        b == IF t.w.body.kind = "nil" THEN [ok |-> TRUE, out |-> "", err |-> ""]
             ELSE executeTemplateForBody(t.w.body, t.data)
        failing == FailingKeys(t.w.headers, t.data)
    IN  IF ~u.ok
        THEN [t EXCEPT !.pc = "done", !.result = "renderfail", !.field = "url"]
        ELSE IF ~b.ok
        THEN [t EXCEPT !.pc = "done", !.result = "renderfail", !.field = "body"]
        ELSE IF failing # {}
        THEN [t EXCEPT !.pc = "done", !.result = "renderfail", !.field = k]
        ELSE LoopHead([t EXCEPT
                 !.url = u.out, !.body = b.out,
                 !.headers = [h \in DOMAIN t.w.headers |->
                                 executeTemplate(t.w.headers[h], t.data).out],
                 !.backoff = t.w.retryBackoff, !.attempt = 0])

(* Mutant of TaskRender: a field that fails to render is logged and left   *)
(* empty, and the delivery goes on to sendWithRetry                        *)
TaskRenderGoesOn(i) ==
    /\ tasks[i].pc = "render"
    /\ tasks' = [tasks EXCEPT ![i] =
                    LoopHead([tasks[i] EXCEPT
                        !.url = executeTemplate(tasks[i].w.url, tasks[i].data).out,
                        !.backoff = tasks[i].w.retryBackoff, !.attempt = 0])]
    /\ UNCHANGED auxVars
    /\ UNCHANGED <<registry, disp, exec, pc, err, ret, webhooks, idx,
                   nextRet, decision, runFailed>>

TaskRender(i) ==
    /\ tasks[i].pc = "render"
    /\ LET failing == FailingKeys(tasks[i].w.headers, tasks[i].data)
       IN  \E k \in IF failing = {} THEN {""} ELSE failing :
               tasks' = [tasks EXCEPT ![i] = RenderTask(tasks[i], k)]
    /\ UNCHANGED auxVars
    /\ UNCHANGED <<registry, disp, exec, pc, err, ret, webhooks, idx,
                   nextRet, decision, runFailed>>

(* Mutant of Sleep: the backoff is not doubled *)
SleepNoDouble(t) ==
    [t EXCEPT !.sleeps = Append(t.sleeps, t.backoff),
              !.pc = "send"]

(* time.Sleep(backoff); backoff *= 2 *)
Sleep(t) ==
    [t EXCEPT !.sleeps = Append(t.sleeps, t.backoff),
              !.backoff = Wrap(t.backoff * 2),
              !.pc = "send"]

TaskSleep(i) ==
    /\ tasks[i].pc = "sleep"
    /\ tasks' = [tasks EXCEPT ![i] = Sleep(tasks[i])]
    /\ UNCHANGED auxVars
    /\ UNCHANGED <<registry, disp, exec, pc, err, ret, webhooks, idx,
                   nextRet, decision, runFailed>>

(* Mutant of Attempt: a successful request does not end the loop *)
AttemptIgnoresSuccess(t, o) ==
    LET e == sendRequest(o)
        u == [t EXCEPT !.attempts = t.attempts + 1, !.errs = Append(t.errs, e),
                      !.codes = Append(t.codes, o)]
    IN  LoopHead([u EXCEPT !.lastErr = IF e = NoErr THEN t.lastErr ELSE e,
                           !.attempt = t.attempt + 1])

(* Mutant of Attempt: a failed request does not advance the loop counter *)
AttemptNoCount(t, o) ==
    LET e == sendRequest(o)
        u == [t EXCEPT !.attempts = t.attempts + 1, !.errs = Append(t.errs, e),
                      !.codes = Append(t.codes, o)]
    IN  IF e = NoErr
        THEN Finish(u, NoErr)
        ELSE LoopHead([u EXCEPT !.lastErr = e])

(* One sendRequest with outcome o, then the rest of the loop body and the  *)
(* next loop head.                                                         *)
Attempt(t, o) ==
    LET e == sendRequest(o)
        u == [t EXCEPT !.attempts = t.attempts + 1, !.errs = Append(t.errs, e),
                      !.codes = Append(t.codes, o)]
    IN  IF e = NoErr
        THEN Finish(u, NoErr)
        ELSE LoopHead([u EXCEPT !.lastErr = e, !.attempt = t.attempt + 1])

(* Mutant of TaskSend: the deliveries are made one after the other, a     *)
(* task sends only when every task spawned before it has ended           *)
TaskSendInTurn(i) ==
    /\ tasks[i].pc = "send"
    /\ \A j \in 1..(i - 1) : tasks[j].pc = "done"
    /\ \E o \in Outcomes :
        tasks' = [tasks EXCEPT ![i] = Attempt(tasks[i], o)]
    /\ UNCHANGED auxVars
    /\ UNCHANGED <<registry, disp, exec, pc, err, ret, webhooks, idx,
                   nextRet, decision, runFailed>>

TaskSend(i) ==
    /\ tasks[i].pc = "send"
    /\ \E o \in Outcomes :
        tasks' = [tasks EXCEPT ![i] = Attempt(tasks[i], o)]
    /\ UNCHANGED auxVars
    /\ UNCHANGED <<registry, disp, exec, pc, err, ret, webhooks, idx,
                   nextRet, decision, runFailed>>

---------------------------------------------------------------------------

TaskStartStep == \E i \in 1..Len(tasks) : TaskStart(i)

TaskRenderStep == \E i \in 1..Len(tasks) : TaskRender(i)

TaskSleepStep == \E i \in 1..Len(tasks) : TaskSleep(i)

TaskSendStep == \E i \in 1..Len(tasks) : TaskSend(i)

(* The steps Run takes by itself once ctx.Next() has returned *)
RunStep ==
    \/ WebhookRun
    \/ WebhookReturn
    \/ PerJobSelect
    \/ PerJobIter
    \/ PerJobReturn

Next ==
    \/ RunStart
    \/ NextReturn
    \/ WebhookRun
    \/ WebhookReturn
    \/ PerJobSelect
    \/ PerJobIter
    \/ PerJobReturn
    \/ TaskStartStep
    \/ TaskRenderStep
    \/ TaskSleepStep
    \/ TaskSendStep

Spec == Init /\ [][Next]_vars


(* The fair specification: Run's own steps are taken once they are         *)
(* enabled (Run never blocks after ctx.Next() has returned); the wrapped   *)
(* pipeline and the delivery goroutines are under no obligation, so a      *)
(* goroutine may hang in an HTTP exchange or sleep for ever.               *)
LiveSpec == Spec /\ WF_vars(RunStep)

---------------------------------------------------------------------------
(* Observations used by the properties *)

Global == disp.kind = "global"

PerJob == disp.kind = "perjob"

Spawned == tasks # <<>>

(* Every attempt of task t failed *)
AllFailed(t) == \A k \in 1..Len(t.errs) : t.errs[k] # NoErr

(* The goroutine of t ran sendWithRetry to its end *)
Delivered(t) == t.pc = "done" /\ t.result \in {"sent", "failed"}

StrictlyIncreasing(q) == \A k \in 1..(Len(q) - 1) : q[k] < q[k + 1]

---------------------------------------------------------------------------
(* C1: Run of either dispatcher returns exactly the value ctx.Next()       *)
(* returned, whatever was skipped or spawned and however the deliveries    *)
(* end.                                                                    *)
C1_RunReturnsNextError ==
    pc = "returned" => ret = nextRet

C1_Witness ==
    /\ pc = "returned"
    /\ ret = JobErr
    /\ \E i \in 1..Len(tasks) : tasks[i].result = "failed" /\ tasks[i].attempts = 3

(* C2: once ctx.Next() has returned, Run returns, also when a delivery     *)
(* goroutine it spawned never completes.                                   *)
C2_RunReturnsWithoutWaiting ==
    (pc \in {"stop", "loop", "ret"}) ~> (pc = "returned")

C2_Witness ==
    /\ pc = "returned"
    /\ \E i \in 1..Len(tasks) : tasks[i].pc = "sleep"

(* C3: nothing is classified, selected or spawned before ctx.Next() has    *)
(* returned.                                                               *)
C3_NothingBeforeNextReturns ==
    (Spawned \/ decision # "none" \/ idx # 0) => nextRet # Unset

C3_Witness ==
    /\ pc = "next"
    /\ Global
    /\ GlobalDecision(disp.w, exec.Failed) = "send"
    /\ ~Spawned

C5_ErrorFiresIffFailed ==
    (Global /\ pc = "returned" /\ disp.def.active /\ disp.def.type = WebhookTypeError)
        => (Spawned <=> exec.Failed)

C5_Witness ==
    /\ Global /\ pc = "returned"
    /\ disp.def.active /\ disp.def.type = WebhookTypeError
    /\ exec.Failed /\ Spawned

(* C6 as stated: an active global definition of type info is spawned       *)
(* exactly when the job did not fail.                                      *)
C6_InfoFiresIffNotFailed ==
    (Global /\ pc = "returned" /\ disp.def.active /\ disp.def.type = WebhookTypeInfo)
        => (Spawned <=> ~exec.Failed)

(* C6, amended: an active global definition of type info is spawned        *)
(* exactly when the job did not fail and onlyOnError is false.             *)
C6_InfoFiresIffNotFailedAndNotOnlyOnError ==
    (Global /\ pc = "returned" /\ disp.def.active /\ disp.def.type = WebhookTypeInfo)
        => (Spawned <=> (~exec.Failed /\ ~disp.def.onlyOnError))

C6_Witness ==
    /\ Global /\ pc = "returned"
    /\ disp.def.active /\ disp.def.type = WebhookTypeInfo
    /\ ~disp.def.onlyOnError /\ ~exec.Failed /\ Spawned

(* C7 as stated: an active global definition of type all is spawned on     *)
(* every job completion.                                                   *)
C7_AllAlwaysFires ==
    (Global /\ pc = "returned" /\ disp.def.active /\ disp.def.type = WebhookTypeAll)
        => Spawned

(* C7, amended: an active global definition of type all is spawned on      *)
(* every job completion except when onlyOnError is true and the job did    *)
(* not fail.                                                               *)
C7_AllFiresUnlessOnlyOnErrorOnSuccess ==
    (Global /\ pc = "returned" /\ disp.def.active /\ disp.def.type = WebhookTypeAll)
        => (Spawned <=> ~(disp.def.onlyOnError /\ ~exec.Failed))

C7_Witness ==
    /\ Global /\ pc = "returned"
    /\ disp.def.active /\ disp.def.type = WebhookTypeAll
    /\ disp.def.onlyOnError /\ exec.Failed /\ Spawned

(* C8: in the global dispatcher onlyOnError only narrows: with it no       *)
(* delivery is spawned for a job that did not fail, and whatever is        *)
(* spawned would also be spawned for the same definition without it.       *)
C8_OnlyOnErrorOnlyNarrows ==
    Global =>
        /\ (disp.def.onlyOnError /\ ~exec.Failed) => ~Spawned
        /\ Spawned =>
             GlobalDecision([disp.w EXCEPT !.onlyOnError = FALSE], exec.Failed) = "send"

C8_Witness ==
    /\ Global /\ pc = "returned"
    /\ disp.def.onlyOnError /\ disp.def.active /\ disp.def.type = WebhookTypeAll
    /\ ~exec.Failed /\ ~Spawned

(* C9 as stated: with retry.count = N, a delivery whose attempts all fail  *)
(* makes exactly N+1 attempts and then reports the last attempt's error.   *)
C9_ExactlyNPlusOneAttempts ==
    \A i \in 1..Len(tasks) :
        LET t == tasks[i] IN
        (Delivered(t) /\ AllFailed(t)) =>
            /\ t.attempts = t.w.retryCount + 1
            /\ t.attempts >= 1
            /\ t.result = "failed"
            /\ t.reported = t.errs[Len(t.errs)]

(* What the retry loop does for every count the configuration can supply:  *)
(* max(N, -1) + 1 attempts, and with no attempt at all nil is reported.    *)
RetryLoopAttempts ==
    \A i \in 1..Len(tasks) :
        LET t == tasks[i] IN
        (Delivered(t) /\ AllFailed(t)) =>
            IF t.w.retryCount >= 0
            THEN /\ t.attempts = t.w.retryCount + 1
                 /\ t.result = "failed"
                 /\ t.reported = t.errs[Len(t.errs)]
            ELSE /\ t.attempts = 0
                 /\ t.result = "sent"

(* C10 as stated: the k-th sleep is the initial backoff times 2^(k-1),     *)
(* successive sleeps strictly increase, there are at most N of them, none  *)
(* before the first attempt and none after the last.                       *)
SleepsBetweenAttempts(t) ==
    /\ Len(t.sleeps) <= t.attempts
    /\ t.attempts = 0 => t.sleeps = <<>>
    /\ (t.pc = "done" /\ t.attempts > 0) => Len(t.sleeps) = t.attempts - 1
    /\ Len(t.sleeps) > 0 => Len(t.sleeps) <= t.w.retryCount

C10_SleepsDoubleAndIncrease ==
    \A i \in 1..Len(tasks) :
        LET t == tasks[i] IN
        /\ \A k \in 1..Len(t.sleeps) : t.sleeps[k] = t.w.retryBackoff * Pow2(k - 1)
        /\ StrictlyIncreasing(t.sleeps)
        /\ SleepsBetweenAttempts(t)

(* C10, amended: the k-th sleep is the initial backoff times 2^(k-1) in    *)
(* the wrapping arithmetic of time.Duration; successive sleeps strictly    *)
(* increase when the initial backoff is positive and no doubling           *)
(* overflows; the sleeps lie between the attempts as stated.               *)
C10_SleepsDoubleWrapping ==
    \A i \in 1..Len(tasks) :
        LET t == tasks[i] IN
        /\ \A k \in 1..Len(t.sleeps) :
               t.sleeps[k] = Wrap(t.w.retryBackoff * Pow2(k - 1))
        /\ (t.w.retryBackoff > 0
              /\ t.w.retryBackoff * Pow2(Len(t.sleeps) - 1) < DurHalf)
             => StrictlyIncreasing(t.sleeps)
        /\ SleepsBetweenAttempts(t)

C10_Witness ==
    \E i \in 1..Len(tasks) :
        /\ tasks[i].pc = "done"
        /\ tasks[i].attempts = 3
        /\ tasks[i].sleeps = <<3, 6>>

---------------------------------------------------------------------------
(* C11: when attempt number k of a delivery is its first success, the      *)
(* delivery has made exactly k attempts and k - 1 sleeps, it has ended     *)
(* (so no attempt or sleep follows) and it reports success.                *)
C11_FirstSuccessEndsDelivery ==
    \A i \in 1..Len(tasks) :
        LET t == tasks[i] IN
        \A k \in 1..Len(t.errs) :
            t.errs[k] = NoErr =>
                /\ k = Len(t.errs)
                /\ k <= t.w.retryCount + 1
                /\ t.attempts = k
                /\ Len(t.sleeps) = k - 1
                /\ t.pc = "done"
                /\ t.result = "sent"
                /\ t.reported = NoErr

(* 500, 500, 200 with two retries left to take: three attempts, success *)
C11_Witness ==
    \E i \in 1..Len(tasks) :
        /\ tasks[i].errs = <<[kind |-> "status", code |-> 500],
                             [kind |-> "status", code |-> 500], NoErr>>
        /\ tasks[i].attempts = 3
        /\ tasks[i].result = "sent"

---------------------------------------------------------------------------
(* The active entries of a list of definitions, in order *)
ActiveOf(q) == SelectSeq(q, LAMBDA d : d.active)

(* The definitions the delivery tasks were spawned for, in spawning order *)
TaskDefs == [i \in 1..Len(tasks) |-> tasks[i].def]

(* C20: when the per-job dispatcher has returned, its delivery tasks are   *)
(* exactly one per active entry of the error-set if the job failed, and    *)
(* one per active entry of the info-set otherwise, in list order; so the   *)
(* set that was not selected contributes no task.                          *)
C20_PerJobSpawnsActiveOfSelectedSet ==
    (PerJob /\ pc = "returned") =>
        TaskDefs = ActiveOf(IF runFailed THEN disp.errorWebhooks
                            ELSE disp.infoWebhooks)

(* A failed job with one active error entry and one active info entry of   *)
(* another name: one task, for the error entry                             *)
C20_Witness ==
    /\ PerJob /\ pc = "returned" /\ runFailed
    /\ Len(disp.errorWebhooks) = 1 /\ disp.errorWebhooks[1].active
    /\ Len(disp.infoWebhooks) = 1 /\ disp.infoWebhooks[1].active
    /\ disp.infoWebhooks[1].name # disp.errorWebhooks[1].name
    /\ Len(tasks) = 1 /\ tasks[1].def = disp.errorWebhooks[1]

---------------------------------------------------------------------------
(* A global Webhook built by a direct call of NewWebhookFromDefinition, as *)
(* the tests and an embedding program do: the definition has not passed    *)
(* parseWebhookConfigFile, so its type may be the zero value "" and its    *)
(* active flag the zero value false.                                       *)

DirectRetries == {NoRetry, [set |-> TRUE, count |-> 1, backoff |-> "1s"]}

DirectDefs ==
    {d \in [name : {"w1"}, type : {""} \cup Types, active : BOOLEAN,
            onlyOnError : BOOLEAN, retry : DirectRetries,
            url : {PlainURL}, headers : {NoHeaders}, body : {NoBody}] :
        NewWebhookFromDefinition(d).ok}

InitDirect ==
    /\ \E d \in DirectDefs :
        disp = [kind |-> "global", def |-> d, w |-> NewWebhookFromDefinition(d).w,
                errorWebhooks |-> <<>>, infoWebhooks |-> <<>>]
    /\ registry = <<>>
    /\ exec \in ExecStates
    /\ pc = "idle"
    /\ err = Unset
    /\ ret = Unset
    /\ webhooks = <<>>
    /\ idx = 0
    /\ tasks = <<>>
    /\ nextRet = Unset
    /\ decision = "none"
    /\ runFailed = FALSE
    /\ AuxIdle

NextDirect ==
    \/ RunStart
    \/ NextReturn
    \/ WebhookRun
    \/ WebhookReturn
    \/ TaskStartStep
    \/ TaskRenderStep
    \/ TaskSleepStep
    \/ TaskSendStep

SpecDirect == InitDirect /\ [][NextDirect]_vars

(* The definition of the tests and of the Quick Start: no type, no active *)
ZeroTypeActive == disp.def.type = "" /\ ~disp.def.active

(* C12: a Webhook built from a definition that leaves type and active at   *)
(* their zero values (and onlyOnError false) has spawned its delivery when *)
(* Run returns on an execution that did not fail.                          *)
C12_ZeroTypeActiveSendsOnSuccess ==
    (Global /\ pc = "returned" /\ ZeroTypeActive /\ ~disp.def.onlyOnError
        /\ ~runFailed) => Spawned

(* C13: a Webhook built from a definition with onlyOnError true, no type   *)
(* and no active has spawned its delivery when Run returns if and only if  *)
(* the execution failed.                                                   *)
C13_OnlyOnErrorSendsIffFailed ==
    (Global /\ pc = "returned" /\ ZeroTypeActive /\ disp.def.onlyOnError)
        => (Spawned <=> runFailed)

---------------------------------------------------------------------------
(* The loader: LoadWebhookMiddlewares and parseWebhookConfigFile           *)

(* Longest list of webhooks in a config file *)
MaxFile == 2

(* An entry of the file as json.Unmarshal fills it: an absent field has    *)
(* its zero value.  headers, body and timeout take no part in validation,  *)
(* sorting or registration beyond being copied.                            *)
BadBackoff == [set |-> TRUE, count |-> 1, backoff |-> "bad"]

ValidEntries ==
    [name : Names, type : Types, active : {TRUE}, priority : {0, 1},
     url : {"http://h"}, method : {"", "GET"}, onlyOnError : {FALSE},
     retry : {NoRetry, BadBackoff},
     headers : {NoHeaders}, body : {NoBody}]

InvalidEntries ==
    [name : {"w1"}, type : {"", "bogus", WebhookTypeError}, active : {TRUE},
     priority : {0}, url : {"", "http://h"}, method : {""},
     onlyOnError : {FALSE}, retry : {NoRetry},
     headers : {NoHeaders}, body : {NoBody}]
    \ [name : {"w1"}, type : {WebhookTypeError}, active : {TRUE},
       priority : {0}, url : {"http://h"}, method : {""},
       onlyOnError : {FALSE}, retry : {NoRetry},
       headers : {NoHeaders}, body : {NoBody}]

FileEntries == ValidEntries \cup InvalidEntries

(* Sequences over S of length at most n *)
RECURSIVE SeqsUpTo(_, _)
SeqsUpTo(S, n) ==
    IF n = 0 THEN {<<>>}
    ELSE LET shorter == SeqsUpTo(S, n - 1)
         IN  shorter \cup
             {Append(q, x) : q \in {r \in shorter : Len(r) = n - 1}, x \in S}

(* The config files of the model: missing, not JSON, or a list of entries *)
Files ==
    {NoFile, [exists |-> TRUE, wellformed |-> FALSE, webhooks |-> <<>>]} \cup
    [exists : {TRUE}, wellformed : {TRUE}, webhooks : SeqsUpTo(FileEntries, MaxFile)]

(* validateWebhookType *)
validateWebhookType(webhookType) ==
    webhookType \in {WebhookTypeError, WebhookTypeInfo, WebhookTypeAll}

(* The checks of one iteration of parseWebhookConfigFile's loop, i being   *)
(* the index of the Go loop (from 0).  The url error carries the index;    *)
(* the two type errors carry the name of the entry, which the model drops. *)
EntryError(def, i) ==
    IF def.url = "" THEN [kind |-> "missing-url", code |-> i]
    ELSE IF def.type = "" THEN [kind |-> "missing-type", code |-> 0]
    ELSE IF ~validateWebhookType(def.type) THEN [kind |-> "invalid-type", code |-> 0]
    ELSE NoErr

(* The error of the first entry from position p on that fails validation *)
RECURSIVE ValidateFrom(_, _)
ValidateFrom(ws, p) ==
    IF p > Len(ws) THEN NoErr
    ELSE IF EntryError(ws[p], p - 1) # NoErr THEN EntryError(ws[p], p - 1)
    ELSE ValidateFrom(ws, p + 1)

(* The defaults parseWebhookConfigFile sets on a validated entry *)
WithDefaults(def) ==
    [def EXCEPT !.method = IF def.method = "" THEN "POST" ELSE def.method]

(* Mutant of parseWebhookConfigFile: invalid entries are dropped, the rest *)
(* of the file is loaded.                                                  *)
parseWebhookConfigFileSkipping(f) ==
    IF ~f.wellformed
    THEN [err |-> [kind |-> "json", code |-> 0], defs |-> <<>>]
    ELSE [err |-> NoErr,
          defs |-> LET good == SelectSeq(f.webhooks,
                                         LAMBDA d : EntryError(d, 0) = NoErr)
                   IN  [p \in 1..Len(good) |-> WithDefaults(good[p])]]

(* parseWebhookConfigFile on a file that could be read *)
parseWebhookConfigFile(f) ==
    IF ~f.wellformed
    THEN [err |-> [kind |-> "json", code |-> 0], defs |-> <<>>]
    ELSE IF ValidateFrom(f.webhooks, 1) # NoErr
    THEN [err |-> ValidateFrom(f.webhooks, 1), defs |-> <<>>]
    ELSE [err |-> NoErr,
          defs |-> [p \in 1..Len(f.webhooks) |-> WithDefaults(f.webhooks[p])]]

(* Mutant of Register: a name that is bound keeps its definition *)
RegisterFirstWins(reg, def) ==
    [n \in DOMAIN reg \cup {def.name} |-> IF n \in DOMAIN reg THEN reg[n] ELSE def]

(* WebhookRegistry.Register: the name is bound to this definition *)
Register(reg, def) ==
    [n \in DOMAIN reg \cup {def.name} |-> IF n = def.name THEN def ELSE reg[n]]

(* q is in ascending order of priority *)
ByPriority(q) ==
    \A a, b \in 1..Len(q) : a < b => q[a].priority <= q[b].priority

(* Mutant of SortSlice: the slice is left in file order *)
SortSliceNone(q) == {q}

(* What sort.Slice may leave in the slice: any arrangement of q that is in *)
(* ascending order of priority (sort.Slice does not promise to keep equal  *)
(* elements in their original order).                                      *)
SortSlice(q) ==
    {r \in {[p \in 1..Len(q) |-> q[f[p]]] : f \in Permutations(1..Len(q))} :
        ByPriority(r)}

(* What the loader leaves alone: the run of a dispatcher on a job *)
runVars == <<disp, exec, pc, err, ret, webhooks, idx, tasks,
             nextRet, decision, runFailed>>

NoDefinition ==
    [name |-> "", type |-> "", active |-> FALSE, onlyOnError |-> FALSE,
     retry |-> NoRetry,
     url |-> "", headers |-> NoHeaders, body |-> NoBody]

(* No dispatcher is running *)
RunIdle ==
    /\ disp = [kind |-> "none", def |-> NoDefinition, w |-> NoWebhook,
               errorWebhooks |-> <<>>, infoWebhooks |-> <<>>]
    /\ exec = [IsRunning |-> TRUE, Failed |-> FALSE]
    /\ pc = "off"
    /\ err = Unset
    /\ ret = Unset
    /\ webhooks = <<>>
    /\ idx = 0
    /\ tasks = <<>>
    /\ nextRet = Unset
    /\ decision = "none"
    /\ runFailed = FALSE

(* LoadWebhookMiddlewares is about to be called on a config file *)
InitLoad ==
    /\ file \in Files
    /\ registry = <<>>
    /\ lpc = "start"
    /\ mws = <<>>
    /\ loadErr = NoErr
    /\ webhookDefs = <<>>
    /\ di = 0
    /\ cfg = NoConfig
    /\ frames = <<>>
    /\ acted = <<>>
    /\ ExtIdle
    /\ RunIdle

(* From the creation of the registry to the check `len(webhookDefs) == 0`: *)
(* a missing file, a parse or validation error and an empty list each      *)
(* return nil and the empty registry.                                      *)
LoadParse ==
    /\ lpc = "start"
    /\ IF ~file.exists
       THEN /\ loadErr' = NoErr
            /\ webhookDefs' = <<>>
            /\ lpc' = "done"
       ELSE LET r == parseWebhookConfigFile(file)
            IN  /\ loadErr' = r.err
                /\ webhookDefs' = r.defs
                /\ lpc' = IF r.err # NoErr \/ Len(r.defs) = 0
                          THEN "done" ELSE "parsed"
    /\ UNCHANGED <<registry, file, mws, di, cfg, frames, acted>>
    /\ UNCHANGED runVars
    /\ UNCHANGED extVars

(* sort.Slice(webhookDefs, by Priority) *)
LoadSort ==
    /\ lpc = "parsed"
    /\ webhookDefs' \in SortSlice(webhookDefs)
    /\ di' = 1
    /\ lpc' = "loop"
    /\ UNCHANGED <<registry, file, mws, loadErr, cfg, frames, acted>>
    /\ UNCHANGED runVars
    /\ UNCHANGED extVars

(* Mutant of LoadIter: a definition is registered only once its dispatcher *)
(* has been built.                                                         *)
LoadIterRegistersBuilt ==
    /\ lpc = "loop"
    /\ di <= Len(webhookDefs)
    /\ LET def == webhookDefs[di]
           made == NewWebhookFromDefinition(def)
       IN  /\ registry' = IF made.ok THEN Register(registry, def) ELSE registry
           /\ mws' = IF made.ok THEN Append(mws, [def |-> def, w |-> made.w])
                     ELSE mws
    /\ di' = di + 1
    /\ UNCHANGED <<file, lpc, loadErr, webhookDefs, cfg, frames, acted>>
    /\ UNCHANGED runVars
    /\ UNCHANGED extVars

(* One iteration of the loop over the sorted definitions: register, then   *)
(* build the dispatcher; a construction error skips the append only.       *)
LoadIter ==
    /\ lpc = "loop"
    /\ di <= Len(webhookDefs)
    /\ LET def == webhookDefs[di]
           made == NewWebhookFromDefinition(def)
       IN  /\ registry' = Register(registry, def)
           /\ mws' = IF made.ok THEN Append(mws, [def |-> def, w |-> made.w])
                     ELSE mws
    /\ di' = di + 1
    /\ UNCHANGED <<file, lpc, loadErr, webhookDefs, cfg, frames, acted>>
    /\ UNCHANGED runVars
    /\ UNCHANGED extVars

(* `return middlewares, registry` *)
LoadReturn ==
    /\ lpc = "loop"
    /\ di > Len(webhookDefs)
    /\ lpc' = "done"
    /\ UNCHANGED <<registry, file, mws, loadErr, webhookDefs, di, cfg, frames, acted>>
    /\ UNCHANGED runVars
    /\ UNCHANGED extVars

NextLoad ==
    \/ LoadParse
    \/ LoadSort
    \/ LoadIter
    \/ LoadReturn

SpecLoad == InitLoad /\ [][NextLoad]_vars

(* Observations on a load *)

(* The file could be read and parsed as JSON *)
Parsed == file.exists /\ file.wellformed

(* The entries of the file with the defaults applied, in file order *)
FileDefs == [p \in 1..Len(file.webhooks) |-> WithDefaults(file.webhooks[p])]

(* Positions of the file whose entry fails validation *)
InvalidAt == {p \in 1..Len(file.webhooks) : EntryError(file.webhooks[p], p - 1) # NoErr}

(* The definitions of the dispatchers the loader returned, in order *)
MwDefs == [p \in 1..Len(mws) |-> mws[p].def]

(* C14: a file whose entries all give a url and no type is accepted by     *)
(* parseWebhookConfigFile: no error, and the entries come back in file     *)
(* order with the method defaulted to POST.                                *)
C14_TypelessEntriesAccepted ==
    (/\ lpc # "start" /\ Parsed /\ Len(file.webhooks) > 0
     /\ \A p \in 1..Len(file.webhooks) :
            file.webhooks[p].url # "" /\ file.webhooks[p].type = "")
    => /\ loadErr = NoErr
       /\ lpc = "parsed" => webhookDefs = FileDefs

---------------------------------------------------------------------------
(* The global dispatchers of one load attached to one job, in the order    *)
(* the loader returned them.  ctx.Next() (core.Context, outside this       *)
(* package) runs the remaining pipeline: the Run of the next middleware    *)
(* attached, or the job when none is left.                                 *)

(* Files whose every entry validates and builds *)
ChainEntries ==
    [name : Names, type : Types, active : BOOLEAN, priority : {0, 1},
     url : {"http://h"}, method : {"GET"}, onlyOnError : {FALSE},
     retry : {NoRetry},
     headers : {NoHeaders}, body : {NoBody}]

ChainFiles ==
    [exists : {TRUE}, wellformed : {TRUE}, webhooks : SeqsUpTo(ChainEntries, MaxFile)]

InitChain ==
    /\ file \in ChainFiles
    /\ registry = <<>>
    /\ lpc = "start"
    /\ mws = <<>>
    /\ loadErr = NoErr
    /\ webhookDefs = <<>>
    /\ di = 0
    /\ cfg = NoConfig
    /\ frames = <<>>
    /\ acted = <<>>
    /\ ExtIdle
    /\ RunIdle

(* Run of the next dispatcher is entered and calls ctx.Next(): the first   *)
(* by the scheduler, each further one by the ctx.Next() of the one before. *)
ChainEnter ==
    /\ lpc = "done"
    /\ pc \in {"off", "enter"}
    /\ Len(frames) < Len(mws)
    /\ frames' = Append(frames, Len(frames) + 1)
    /\ pc' = "enter"
    /\ UNCHANGED extVars
    /\ UNCHANGED <<registry, file, lpc, mws, loadErr, webhookDefs, di, cfg, acted>>
    /\ UNCHANGED <<disp, exec, err, ret, webhooks, idx, tasks, nextRet,
                   decision, runFailed>>

(* The ctx.Next() of the last dispatcher runs the job *)
ChainJob ==
    /\ pc = "enter"
    /\ Len(frames) = Len(mws)
    /\ \E e \in {NoErr, JobErr} :
        /\ err' = e
        /\ nextRet' = e
    /\ \E x \in ExecStates :
        /\ x = exec \/ (exec.IsRunning /\ ~x.IsRunning)
        /\ exec' = x
    /\ pc' = "unwind"
    /\ UNCHANGED extVars
    /\ UNCHANGED <<registry, file, lpc, mws, loadErr, webhookDefs, di, cfg,
                   frames, acted>>
    /\ UNCHANGED <<disp, ret, webhooks, idx, tasks, decision, runFailed>>

(* The innermost Run that has not returned yet goes on after its           *)
(* ctx.Next(): ctx.Stop(err), classification, the go statement when it     *)
(* sends, and `return err` to the ctx.Next() of the dispatcher before it.  *)
ChainAct ==
    /\ pc = "unwind"
    /\ frames # <<>>
    /\ LET top == frames[Len(frames)]
           x == CtxStop(err, exec)
           d == GlobalDecision(mws[top].w, x.Failed)
       IN  /\ exec' = x
           /\ runFailed' = x.Failed
           /\ decision' = d
           /\ acted' = Append(acted, top)
           /\ tasks' = IF d = "send"
                       THEN Append(tasks, NewTask("global", mws[top].def, mws[top].w))
                       ELSE tasks
    /\ frames' = SubSeq(frames, 1, Len(frames) - 1)
    /\ IF Len(frames) = 1
       THEN pc' = "returned" /\ ret' = err
       ELSE pc' = pc /\ ret' = ret
    /\ UNCHANGED extVars
    /\ UNCHANGED <<registry, file, lpc, mws, loadErr, webhookDefs, di, cfg>>
    /\ UNCHANGED <<disp, err, webhooks, idx, nextRet>>

NextChain ==
    \/ LoadParse
    \/ LoadSort
    \/ LoadIter
    \/ LoadReturn
    \/ ChainEnter
    \/ ChainJob
    \/ ChainAct

SpecChain == InitChain /\ [][NextChain]_vars

(* C16: the dispatchers of one load, attached in the order the loader      *)
(* returned them, act on a job completion in ascending order of priority:  *)
(* one that acted earlier never has a higher priority value than one that  *)
(* acted later.                                                            *)
C16_ActInAscendingPriority ==
    \A a, b \in 1..Len(acted) :
        a < b => mws[acted[a]].def.priority <= mws[acted[b]].def.priority

---------------------------------------------------------------------------
(* The stable arrangement of q by priority: for each priority in ascending *)
(* order, the elements of that priority in their order in q.               *)
RECURSIVE StableFrom(_, _)
StableFrom(q, P) ==
    IF P = {} THEN <<>>
    ELSE LET k == CHOOSE x \in P : \A y \in P : x <= y
         IN  SelectSeq(q, LAMBDA d : d.priority = k) \o StableFrom(q, P \ {k})

StableSort(q) == StableFrom(q, {q[p].priority : p \in 1..Len(q)})

(* The definitions of q whose dispatcher can be built, in order *)
Buildable(q) == SelectSeq(q, LAMBDA d : NewWebhookFromDefinition(d).ok)

(* r is a rearrangement of q *)
Rearranged(q, r) ==
    /\ Len(q) = Len(r)
    /\ \E f \in Permutations(1..Len(q)) : r = [p \in 1..Len(q) |-> q[f[p]]]

(* The load went through: the file validated *)
Loaded == lpc = "done" /\ Parsed /\ loadErr = NoErr

(* C17: the dispatcher list is the stable arrangement of the file by       *)
(* priority: definitions of equal priority keep their file order.          *)
C17_SortIsStable ==
    Loaded => MwDefs = Buildable(StableSort(FileDefs))

(* C17, as the code has it: the dispatcher list holds the buildable        *)
(* definitions of the file in ascending order of priority; the order of    *)
(* definitions of equal priority is not fixed.                             *)
C17_SortedByPriority ==
    Loaded => /\ ByPriority(MwDefs)
              /\ Rearranged(Buildable(FileDefs), MwDefs)

(* Two different definitions of equal priority returned in the reverse of  *)
(* their file order                                                        *)
C17_Witness ==
    /\ Loaded /\ Len(file.webhooks) = 2 /\ Len(mws) = 2
    /\ file.webhooks[1].priority = file.webhooks[2].priority
    /\ FileDefs[1] # FileDefs[2]
    /\ MwDefs = <<FileDefs[2], FileDefs[1]>>

---------------------------------------------------------------------------
(* The names of the entries of the file *)
FileNames == {file.webhooks[p].name : p \in 1..Len(file.webhooks)}

(* The last definition named n in the order the loader registered them *)
LastNamed(n) ==
    LET at == {p \in 1..Len(webhookDefs) : webhookDefs[p].name = n}
    IN  webhookDefs[CHOOSE p \in at : \A q \in at : q <= p]

(* C18: after a load whose file validates, every definition of the file is *)
(* in the registry under its name, also one whose dispatcher could not be  *)
(* built; the dispatcher list holds exactly the buildable definitions.     *)
C18_EveryDefinitionRegistered ==
    Loaded =>
        /\ \A p \in 1..Len(FileDefs) :
               /\ FileDefs[p].name \in DOMAIN registry
               /\ registry[FileDefs[p].name] = FileDefs[p]
        /\ Rearranged(Buildable(FileDefs), MwDefs)

(* C18, as the code has it: every name of the file is in the registry,     *)
(* bound to the definition registered last under it, whether or not that   *)
(* definition's dispatcher could be built; the dispatcher list holds every *)
(* buildable definition of the file, in the order of registration, and no  *)
(* other.                                                                  *)
C18_EveryNameRegisteredLastWins ==
    Loaded =>
        /\ DOMAIN registry = FileNames
        /\ \A n \in FileNames : registry[n] = LastNamed(n)
        /\ Rearranged(FileDefs, webhookDefs)
        /\ MwDefs = Buildable(webhookDefs)
        /\ \A p \in 1..Len(mws) : mws[p].w = NewWebhookFromDefinition(mws[p].def).w

(* Two names, the first with a malformed backoff: both are registered, one *)
(* dispatcher is returned, for the second.                                 *)
C18_Witness ==
    /\ Loaded /\ Len(file.webhooks) = 2
    /\ file.webhooks[1].name # file.webhooks[2].name
    /\ ~NewWebhookFromDefinition(file.webhooks[1]).ok
    /\ NewWebhookFromDefinition(file.webhooks[2]).ok
    /\ registry[file.webhooks[1].name] = FileDefs[1]
    /\ registry[file.webhooks[2].name] = FileDefs[2]
    /\ MwDefs = <<FileDefs[2]>>

---------------------------------------------------------------------------
(* Construction of a per-job dispatcher against a loaded registry          *)

(* The registries of the model: some of the names registered, each with a  *)
(* type the loader accepts, active or not.                                 *)
ConfigRegistries ==
    UNION {[S -> [name : Names, type : Types, active : BOOLEAN,
                  onlyOnError : {FALSE}, retry : {NoRetry},
                  url : {PlainURL}, headers : {NoHeaders}, body : {NoBody}]] :
           S \in SUBSET Names}

InitConfig ==
    /\ registry \in {r \in ConfigRegistries : \A n \in DOMAIN r : r[n].name = n}
    /\ AuxIdle
    /\ RunIdle

(* NewWebhookFromConfig(c, registry, logger), the two name lists being     *)
(* what parseWebhookNames makes of the job's settings.                     *)
Construct ==
    /\ cfg.state = "none"
    /\ \E en \in NameSeqs(MaxNames), inn \in NameSeqs(MaxNames) :
        LET c == NewWebhookFromConfig(en, inn, registry)
        IN  cfg' = [state |-> IF ~c.ok THEN "error"
                              ELSE IF c.nil THEN "nil" ELSE "built",
                    errorNames |-> en, infoNames |-> inn,
                    errorWebhooks |-> c.errorWebhooks,
                    infoWebhooks |-> c.infoWebhooks]
    /\ UNCHANGED <<registry, file, lpc, mws, loadErr, webhookDefs, di, frames, acted>>
    /\ UNCHANGED runVars
    /\ UNCHANGED extVars

NextConfig == Construct

SpecConfig == InitConfig /\ [][NextConfig]_vars

(* Every name of the list is registered with one of the types *)
AllKnownOfType(names, types) ==
    \A i \in 1..Len(names) :
        /\ names[i] \in DOMAIN registry
        /\ registry[names[i]].type \in types

(* C19: a construction with at least one name yields a dispatcher if and   *)
(* only if every error name is registered with type error or all and every *)
(* info name is registered with type info or all, and fails otherwise;     *)
(* whether the referenced definitions are active plays no part.  The       *)
(* dispatcher holds the registered definitions in the order of the names.  *)
C19_ConstructionSucceedsIffNamesValid ==
    (cfg.state # "none" /\ Len(cfg.errorNames) + Len(cfg.infoNames) >= 1) =>
        LET valid == /\ AllKnownOfType(cfg.errorNames, {WebhookTypeError, WebhookTypeAll})
                     /\ AllKnownOfType(cfg.infoNames, {WebhookTypeInfo, WebhookTypeAll})
        IN  /\ cfg.state = (IF valid THEN "built" ELSE "error")
            /\ valid =>
                /\ cfg.errorWebhooks = [i \in 1..Len(cfg.errorNames) |-> registry[cfg.errorNames[i]]]
                /\ cfg.infoWebhooks = [i \in 1..Len(cfg.infoNames) |-> registry[cfg.infoNames[i]]]

(* A dispatcher built for an error name whose definition is inactive *)
C19_Witness ==
    /\ cfg.state = "built"
    /\ Len(cfg.errorNames) = 1
    /\ ~cfg.errorWebhooks[1].active

---------------------------------------------------------------------------
(* C21: on a job that did not fail, the per-job dispatcher has spawned a   *)
(* delivery for every active entry of its info-set that has onlyOnError    *)
(* set, while the global dispatcher of a definition with onlyOnError set   *)
(* has spawned none.                                                       *)
C21_PerJobIgnoresOnlyOnError ==
    (pc = "returned" /\ ~runFailed) =>
        /\ PerJob =>
               \A i \in 1..Len(disp.infoWebhooks) :
                   (disp.infoWebhooks[i].active /\ disp.infoWebhooks[i].onlyOnError)
                       => \E j \in 1..Len(tasks) : tasks[j].def = disp.infoWebhooks[i]
        /\ (Global /\ disp.def.onlyOnError) => ~Spawned

(* An active info entry with onlyOnError set, delivered on a job that did  *)
(* not fail                                                                *)
C21_Witness ==
    /\ PerJob /\ pc = "returned" /\ ~runFailed
    /\ Len(disp.infoWebhooks) = 1
    /\ disp.infoWebhooks[1].active /\ disp.infoWebhooks[1].onlyOnError
    /\ Len(tasks) = 1 /\ tasks[1].def = disp.infoWebhooks[1]
    /\ Delivered(tasks[1])

---------------------------------------------------------------------------
(* Rendering: dispatchers whose definitions carry templates, on a job      *)
(* whose execution record may be changed by its other holders once Run has *)
(* returned (core.Context hands the same *Execution to every middleware    *)
(* and to the scheduler).                                                  *)

(* url, headers and body of the definitions of the model *)
RenderProfiles ==
    { [url |-> PlainURL, headers |-> NoHeaders, body |-> NoBody],
      [url |-> "http://h/{{.Failed}}",
       headers |-> [k \in {"X-A"} |-> "{{.Success}}"],
       body |-> [kind |-> "string", text |-> "failed={{.Failed}}"]],
      [url |-> "{{.Failed", headers |-> NoHeaders, body |-> NoBody],
      [url |-> "{{.Nope}}", headers |-> NoHeaders, body |-> NoBody],
      [url |-> PlainURL,
       headers |-> [k \in {"X-A", "X-B"} |-> IF k = "X-A" THEN "{{.Nope}}" ELSE "v"],
       body |-> NoBody],
      [url |-> PlainURL,
       headers |-> [k \in {"X-A", "X-B"} |-> IF k = "X-A" THEN "{{.Nope}}" ELSE "{{.Failed"],
       body |-> NoBody],
      [url |-> PlainURL, headers |-> NoHeaders,
       body |-> [kind |-> "string", text |-> "{{.Nope}}"]],
      [url |-> PlainURL, headers |-> NoHeaders,
       body |-> [kind |-> "object", text |-> "{\"failed\":\"{{.Failed}}\"}"]],
      [url |-> PlainURL, headers |-> NoHeaders,
       body |-> [kind |-> "object", text |-> "{\"out\":\"{{.Stdout}}\"}"]],
      [url |-> PlainURL, headers |-> NoHeaders,
       body |-> [kind |-> "other", text |-> "5"]] }

(* The definition named n with the templates of profile p *)
RenderDef(n, p) ==
    [name |-> n, type |-> WebhookTypeAll, active |-> TRUE, onlyOnError |-> FALSE,
     retry |-> NoRetry, url |-> p.url, headers |-> p.headers, body |-> p.body]

(* A definition without templates *)
PlainDef(n) == RenderDef(n, [url |-> PlainURL, headers |-> NoHeaders, body |-> NoBody])

(* A global dispatcher of w1, or a per-job dispatcher of w1 and w2 or of   *)
(* w1 twice, the error-set and the info-set being the same.                *)
InitRender ==
    /\ \E p \in RenderProfiles :
        LET a == RenderDef("w1", p)
            b == PlainDef("w2")
        IN  /\ registry = [n \in Names |-> IF n = "w1" THEN a ELSE b]
            /\ \/ disp = [kind |-> "global", def |-> a,
                          w |-> NewWebhookFromDefinition(a).w,
                          errorWebhooks |-> <<>>, infoWebhooks |-> <<>>]
               \/ \E l \in {<<a, b>>, <<b, a>>, <<a, a>>} :
                      disp = [kind |-> "perjob", def |-> a, w |-> NoWebhook,
                              errorWebhooks |-> l, infoWebhooks |-> l]
    /\ exec \in ExecStates
    /\ pc = "idle"
    /\ err = Unset
    /\ ret = Unset
    /\ webhooks = <<>>
    /\ idx = 0
    /\ tasks = <<>>
    /\ nextRet = Unset
    /\ decision = "none"
    /\ runFailed = FALSE
    /\ AuxIdle

(* Another holder of the context changes the execution record after Run    *)
(* has returned.                                                           *)
ExecChange ==
    /\ pc = "returned"
    /\ exec' \in {x \in ExecStates : ~x.IsRunning /\ x # exec}
    /\ UNCHANGED auxVars
    /\ UNCHANGED <<registry, disp, pc, err, ret, webhooks, idx, tasks,
                   nextRet, decision, runFailed>>

NextRender ==
    \/ RunStart
    \/ NextReturn
    \/ WebhookRun
    \/ WebhookReturn
    \/ PerJobSelect
    \/ PerJobIter
    \/ PerJobReturn
    \/ TaskStartStep
    \/ TaskRenderStep
    \/ TaskSendStep
    \/ ExecChange

SpecRender == InitRender /\ [][NextRender]_vars

(* The task has rendered its three fields without an error *)
Rendered(t) ==
    /\ t.pc \notin {"new", "render"}
    /\ t.result \notin {"renderfail", "createfail"}

(* The url, headers and body of task t are those its definition renders    *)
(* to against data d                                                       *)
RendersOf(t, d) ==
    /\ t.url = executeTemplate(t.w.url, d).out
    /\ t.headers = [h \in DOMAIN t.w.headers |->
                       executeTemplate(t.w.headers[h], d).out]
    /\ t.body = IF t.w.body.kind = "nil" THEN ""
                ELSE executeTemplateForBody(t.w.body, d).out

(* The snapshot of the execution record as the dispatcher's Run captured   *)
(* the outcome                                                             *)
RunSnapshot == buildTemplateData([IsRunning |-> FALSE, Failed |-> runFailed])

RenderFails(t) ==
    \/ ~executeTemplate(t.w.url, t.data).ok
    \/ t.w.body.kind # "nil" /\ ~executeTemplateForBody(t.w.body, t.data).ok
    \/ FailingKeys(t.w.headers, t.data) # {}

(* C24: a delivery whose url, body or some header value fails to render    *)
(* (parse error, execution error, or an object body that does not render   *)
(* to well-formed JSON) makes no HTTP attempt and ends with the error      *)
(* logged for the failing field; a sibling delivery whose fields render    *)
(* makes its attempts all the same, and Run returns the pipeline's error.  *)
C24_RenderFailureMakesNoAttempt ==
    /\ \A i \in 1..Len(tasks) :
        LET t == tasks[i]
        IN  /\ (t.data.built /\ RenderFails(t))
                  => /\ t.attempts = 0 /\ t.codes = <<>>
                     /\ t.pc \in {"render", "done"}
                     /\ t.pc = "done"
                          => /\ t.result = "renderfail"
                             /\ t.field \in {"url", "body"} \cup DOMAIN t.w.headers
            /\ (t.data.built /\ ~RenderFails(t))
                  => /\ t.result # "renderfail"
                     /\ t.pc = "done" => t.attempts >= 1
    /\ pc = "returned" => ret = err

(* An object body has rendered to text that is not JSON: no attempt was    *)
(* made for it, its sibling has made its attempts, Run has returned.       *)
C24_Witness ==
    /\ pc = "returned" /\ ret = err
    /\ \E i, j \in 1..Len(tasks) :
        /\ tasks[i].w.body.kind = "object"
        /\ tasks[i].result = "renderfail" /\ tasks[i].field = "body"
        /\ tasks[i].attempts = 0
        /\ tasks[j].pc = "done" /\ tasks[j].attempts >= 1

C29_SuccessIffStatus2xx ==
    \A i \in 1..Len(tasks) :
        /\ Len(tasks[i].errs) = Len(tasks[i].codes)
        /\ \A k \in 1..Len(tasks[i].codes) :
            LET s == tasks[i].codes[k]
            IN  (tasks[i].errs[k] = NoErr) <=> (s # 0 /\ 200 <= s /\ s < 300)

(* A delivery met status 199, then 300, then 299: two failed attempts and  *)
(* a successful one.                                                       *)
C29_Witness ==
    \E i \in 1..Len(tasks) :
        /\ tasks[i].codes = <<199, 300, 299>>
        /\ tasks[i].errs[1] # NoErr /\ tasks[i].errs[2] # NoErr
        /\ tasks[i].errs[3] = NoErr
        /\ tasks[i].result = "sent"

(* C30: a delivery is reported as sent only if at least one of its HTTP    *)
(* attempts was made and received a 2xx response, whatever retry.count     *)
(* the configuration supplies.                                             *)
C30_SentOnlyAfter2xx ==
    \A i \in 1..Len(tasks) :
        tasks[i].result = "sent"
            => /\ tasks[i].attempts >= 1
               /\ \E k \in 1..Len(tasks[i].codes) :
                     200 <= tasks[i].codes[k] /\ tasks[i].codes[k] < 300

(* C32: the failure flag the dispatcher used to decide to send and the     *)
(* Failed value the templates of the spawned delivery see are the same: a  *)
(* delivery spawned for a failed job renders with Failed=true, one spawned *)
(* for a job that did not fail renders with Failed=false, whatever is done *)
(* to the execution record later.                                          *)
C32_TemplatesSeeDecisionFlag ==
    \A i \in 1..Len(tasks) :
        /\ tasks[i].data.built => tasks[i].data.Failed = runFailed
        /\ (Rendered(tasks[i]) /\ tasks[i].w.url = "http://h/{{.Failed}}")
              => tasks[i].url = IF runFailed THEN "http://h/true" ELSE "http://h/false"

---------------------------------------------------------------------------
(* Several job completions: the scheduler runs the job again once Run has  *)
(* returned, whatever the delivery tasks of earlier completions are doing. *)

(* A per-job dispatcher of two definitions, the first with one retry, the  *)
(* second without retry and with a url that fails to render.               *)
InitTasks ==
    /\ LET a == [PlainDef("w1") EXCEPT
                      !.retry = [set |-> TRUE, count |-> 1, backoff |-> "1s"]]
            b == [PlainDef("w2") EXCEPT !.url = "{{.Nope}}"]
        IN  /\ registry = [n \in Names |-> IF n = "w1" THEN a ELSE b]
            /\ disp = [kind |-> "perjob", def |-> a, w |-> NoWebhook,
                       errorWebhooks |-> <<a, b>>, infoWebhooks |-> <<a, b>>]
    /\ exec \in ExecStates
    /\ pc = "idle"
    /\ err = Unset
    /\ ret = Unset
    /\ webhooks = <<>>
    /\ idx = 0
    /\ tasks = <<>>
    /\ nextRet = Unset
    /\ decision = "none"
    /\ runFailed = FALSE
    /\ AuxIdle

(* The scheduler starts the next execution of the job: a new execution     *)
(* record and a new context, the dispatcher is run again.  The tasks of    *)
(* the earlier completions keep the context they were given.               *)
RunAgain ==
    /\ pc = "returned"
    /\ Len(runs) < MaxRuns
    /\ runs' = Append(runs, exec)
    /\ exec' = [IsRunning |-> TRUE, Failed |-> FALSE]
    /\ pc' = "idle"
    /\ err' = Unset
    /\ ret' = Unset
    /\ nextRet' = Unset
    /\ webhooks' = <<>>
    /\ idx' = 0
    /\ decision' = "none"
    /\ runFailed' = FALSE
    /\ UNCHANGED <<registry, disp, tasks, file, lpc, mws, loadErr, webhookDefs,
                   di, cfg, frames, acted, calls, tr>>

NextTasks ==
    \/ RunStart
    \/ NextReturn
    \/ PerJobSelect
    \/ PerJobIter
    \/ PerJobReturn
    \/ TaskStartStep
    \/ TaskRenderStep
    \/ TaskSleepStep
    \/ TaskSendStep
    \/ RunAgain

SpecTasks == InitTasks /\ [][NextTasks]_vars

(* The step task i takes next is enabled *)
TaskCanStep(i) ==
    /\ tasks[i].pc = "new" => ENABLED TaskStart(i)
    /\ tasks[i].pc = "render" => ENABLED TaskRender(i)
    /\ tasks[i].pc = "sleep" => ENABLED TaskSleep(i)
    /\ tasks[i].pc = "send" => ENABLED TaskSend(i)

(* The dispatcher can take its next step, and the scheduler can run the    *)
(* job again once Run has returned                                         *)
RunCanStep ==
    IF pc = "returned"
    THEN Len(runs) < MaxRuns => ENABLED RunAgain
    ELSE ENABLED (RunStart \/ NextReturn \/ PerJobSelect \/ PerJobIter \/ PerJobReturn)

(* C23: the delivery tasks are mutually independent.  Whatever the other   *)
(* tasks are doing (failing, retrying, sleeping, or never taking another   *)
(* step), every task that has not ended can take its own next step, the    *)
(* dispatcher can go on and be run for the next job completion, and a step *)
(* of one task or of the dispatcher changes no other task.                 *)
C23_TasksIndependent ==
    [][/\ \A i \in 1..Len(tasks) : TaskCanStep(i)
       /\ RunCanStep
       /\ \A i, j \in 1..Len(tasks) :
             (i # j /\ tasks'[i] # tasks[i]) => tasks'[j] = tasks[j]
       /\ \A i \in 1..Len(tasks) :
             <<pc, ret, runs>> # <<pc', ret', runs'>> => tasks'[i] = tasks[i]]_vars

(* The second completion has been dispatched and one of its tasks has made *)
(* an attempt while a task of the first completion is still before its     *)
(* first attempt and another one has failed.                               *)
C23_Witness ==
    /\ Len(runs) = 1
    /\ \E i, j, k \in 1..Len(tasks) :
        /\ tasks[i].ctx = 0 /\ tasks[i].pc = "send" /\ tasks[i].attempts = 0
        /\ tasks[j].ctx = 0 /\ tasks[j].result = "renderfail"
        /\ tasks[k].ctx = 1 /\ tasks[k].attempts = 2 /\ tasks[k].pc = "done"

---------------------------------------------------------------------------
(* The template helper truncate.  A string is the sequence of its bytes,   *)
(* each written as a string of one character.                              *)

Marker == <<".", ".", ".">>

HelloWorld == <<"h", "e", "l", "l", "o", " ", "w", "o", "r", "l", "d">>

Short == <<"s", "h", "o", "r", "t">>

(* The strings of the model: the short ones over two bytes, and the two    *)
(* of TestTemplateHelpers                                                  *)
Strings == SeqsUpTo({"a", "."}, MaxStr) \cup {HelloWorld, Short}

Widths == (0 - MinWidth)..MaxWidth

(* Mutant of truncateString: the marker is appended to the first maxLen    *)
(* bytes                                                                   *)
truncateStringLong(maxLen, s) ==
    IF Len(s) <= maxLen THEN [panic |-> FALSE, out |-> s]
    ELSE IF maxLen < 0 THEN [panic |-> TRUE, out |-> <<>>]
    ELSE IF maxLen <= 3 THEN [panic |-> FALSE, out |-> SubSeq(s, 1, maxLen)]
    ELSE [panic |-> FALSE, out |-> SubSeq(s, 1, maxLen) \o Marker]

(* truncateString(maxLen, s); s[:maxLen] with a negative maxLen is a       *)
(* run-time panic (slice bounds out of range).                             *)
truncateString(maxLen, s) ==
    IF Len(s) <= maxLen THEN [panic |-> FALSE, out |-> s]
    ELSE IF maxLen <= 3
    THEN IF maxLen < 0 THEN [panic |-> TRUE, out |-> <<>>]
         ELSE [panic |-> FALSE, out |-> SubSeq(s, 1, maxLen)]
    ELSE [panic |-> FALSE, out |-> SubSeq(s, 1, maxLen - 3) \o Marker]

(* A template is about to call truncate *)
InitTruncate ==
    /\ tr \in [state : {"call"}, maxLen : Widths, s : Strings, out : {<<>>}]
    /\ calls = <<>>
    /\ runs = <<>>
    /\ registry = <<>>
    /\ LoadIdle
    /\ RunIdle

Truncate ==
    /\ tr.state = "call"
    /\ LET r == truncateString(tr.maxLen, tr.s)
       IN  tr' = [tr EXCEPT !.state = IF r.panic THEN "panic" ELSE "returned",
                            !.out = r.out]
    /\ UNCHANGED <<registry, calls, runs>>
    /\ UNCHANGED <<file, lpc, mws, loadErr, webhookDefs, di, cfg, frames, acted>>
    /\ UNCHANGED runVars

NextTruncate == Truncate

SpecTruncate == InitTruncate /\ [][NextTruncate]_vars

(* q ends with the truncation marker *)
EndsWithMarker(q) ==
    Len(q) >= 3 /\ SubSeq(q, Len(q) - 2, Len(q)) = Marker

(* C26 as stated: for every width n and string s, truncate(n, s) returns s *)
(* when len(s) <= n, and otherwise a result of length exactly n that ends  *)
(* with the marker "...".                                                  *)
C26_CutKeepsMarker ==
    tr.state # "call"
        => /\ tr.state = "returned"
           /\ IF Len(tr.s) <= tr.maxLen THEN tr.out = tr.s
              ELSE Len(tr.out) = tr.maxLen /\ EndsWithMarker(tr.out)

(* C26 amended: truncate(n, s) returns s when len(s) <= n.  When           *)
(* len(s) > n and n >= 4 the result is the first n - 3 bytes of s followed *)
(* by "...", of length exactly n; when 0 <= n <= 3 it is the first n bytes *)
(* of s with no marker; when n < 0 the call panics for every s.            *)
C26_CutKeepsMarkerFromWidthFour ==
    tr.state # "call"
        => IF Len(tr.s) <= tr.maxLen
           THEN tr.state = "returned" /\ tr.out = tr.s
           ELSE IF tr.maxLen >= 4
           THEN /\ tr.state = "returned"
                /\ Len(tr.out) = tr.maxLen
                /\ tr.out = SubSeq(tr.s, 1, tr.maxLen - 3) \o Marker
           ELSE IF tr.maxLen >= 0
           THEN /\ tr.state = "returned"
                /\ tr.out = SubSeq(tr.s, 1, tr.maxLen)
           ELSE tr.state = "panic"

(* truncate(5, "hello world") has returned "he..." *)
C26_Witness ==
    /\ tr.state = "returned"
    /\ tr.maxLen = 5 /\ tr.s = HelloWorld
    /\ tr.out = <<"h", "e", ".", ".", ".">>

---------------------------------------------------------------------------
(* The registry by itself: any sequence of Register calls on a new one *)

RegistryDefs ==
    [name : Names, type : Types, active : BOOLEAN, onlyOnError : {FALSE},
     retry : {NoRetry}, url : {PlainURL}, headers : {NoHeaders}, body : {NoBody}]

(* NewWebhookRegistry() *)
InitRegistry ==
    /\ registry = <<>>
    /\ calls = <<>>
    /\ tr = NoTruncate
    /\ runs = <<>>
    /\ LoadIdle
    /\ RunIdle

(* r.Register(def) *)
RegisterCall ==
    /\ Len(calls) < MaxCalls
    /\ \E def \in RegistryDefs :
        /\ registry' = Register(registry, def)
        /\ calls' = Append(calls, def)
    /\ UNCHANGED <<tr, runs>>
    /\ UNCHANGED <<file, lpc, mws, loadErr, webhookDefs, di, cfg, frames, acted>>
    /\ UNCHANGED runVars

NextRegistry == RegisterCall

SpecRegistry == InitRegistry /\ [][NextRegistry]_vars

(* The positions of the Register calls made with name n *)
CallsOf(n) == {k \in 1..Len(calls) : calls[k].name = n}

(* C27: after any sequence of Register calls the registry holds one        *)
(* definition per registered name, Get(name) returns the definition of the *)
(* last Register call made with that name, and Get of a name that was      *)
(* never registered reports not found.                                     *)
C27_GetReturnsLastRegistered ==
    /\ DOMAIN registry = {calls[k].name : k \in 1..Len(calls)}
    /\ \A n \in Names :
        IF CallsOf(n) = {}
        THEN ~Get(registry, n).ok
        ELSE LET last == CHOOSE k \in CallsOf(n) : \A j \in CallsOf(n) : j <= k
             IN  /\ Get(registry, n).ok
                 /\ Get(registry, n).def = calls[last]

(* A name was registered twice with different definitions, another name    *)
(* never: Get returns the second definition, and not found for the other.  *)
C27_Witness ==
    /\ Len(calls) = 3
    /\ calls[1].name = calls[3].name /\ calls[1] # calls[3]
    /\ calls[2].name = calls[1].name
    /\ Get(registry, calls[1].name).def = calls[3]
    /\ \E n \in Names : ~Get(registry, n).ok

---------------------------------------------------------------------------
(* After the load: the registry is filled, per-job dispatchers are built   *)
(* from it, and a dispatcher of either kind is attached to a job and run.  *)

(* One attempt, no retry *)
OneTry == [set |-> TRUE, count |-> 0, backoff |-> "1s"]

LoadedRegistries ==
    {[n \in Names |->
         [name |-> n, type |-> IF n = "w1" THEN ty ELSE WebhookTypeAll,
          active |-> IF n = "w1" THEN ac ELSE TRUE, onlyOnError |-> FALSE,
          retry |-> OneTry, url |-> PlainURL, headers |-> NoHeaders,
          body |-> NoBody]] : ty \in Types, ac \in BOOLEAN}

InitShared ==
    /\ registry \in LoadedRegistries
    /\ AuxIdle
    /\ RunIdle

(* The dispatcher NewWebhookFromConfig has built, or the global dispatcher *)
(* the loader has built of a definition, is attached to a job.             *)
Attach ==
    /\ pc = "off"
    /\ \/ /\ cfg.state = "built"
          /\ disp' = [kind |-> "perjob", def |-> registry["w1"], w |-> NoWebhook,
                      errorWebhooks |-> cfg.errorWebhooks,
                      infoWebhooks |-> cfg.infoWebhooks]
       \/ /\ cfg.state = "none"
          /\ \E n \in DOMAIN registry :
              /\ NewWebhookFromDefinition(registry[n]).ok
              /\ disp' = [kind |-> "global", def |-> registry[n],
                          w |-> NewWebhookFromDefinition(registry[n]).w,
                          errorWebhooks |-> <<>>, infoWebhooks |-> <<>>]
    /\ pc' = "idle"
    /\ UNCHANGED auxVars
    /\ UNCHANGED <<registry, exec, err, ret, webhooks, idx, tasks,
                   nextRet, decision, runFailed>>

NextShared ==
    \/ Construct
    \/ Attach
    \/ RunStart
    \/ NextReturn
    \/ WebhookRun
    \/ WebhookReturn
    \/ PerJobSelect
    \/ PerJobIter
    \/ PerJobReturn
    \/ TaskStartStep
    \/ TaskRenderStep
    \/ TaskSendStep

SpecShared == InitShared /\ [][NextShared]_vars

(* Every definition of sequence q is the one the registry holds *)
FromRegistry(q, reg) ==
    \A k \in 1..Len(q) : q[k].name \in DOMAIN reg /\ q[k] = reg[q[k].name]

(* C28: after the load the registry and its definitions are read-only.     *)
(* No construction of a per-job dispatcher, no step of Run of either       *)
(* dispatcher and no step of a delivery task changes the registry, and the *)
(* definitions the dispatchers and the tasks work on stay the ones the     *)
(* registry holds.                                                         *)
C28_RegistryReadOnly ==
    [][/\ registry' = registry
       /\ FromRegistry(cfg'.errorWebhooks, registry')
       /\ FromRegistry(cfg'.infoWebhooks, registry')
       /\ FromRegistry(disp'.errorWebhooks, registry')
       /\ FromRegistry(disp'.infoWebhooks, registry')
       /\ \A i \in 1..Len(tasks') : tasks'[i].def = registry'[tasks'[i].def.name]]_vars

(* A per-job dispatcher was built, attached and run, and one of its        *)
(* deliveries has made its attempt.                                        *)
C28_Witness ==
    /\ cfg.state = "built"
    /\ disp.kind = "perjob"
    /\ pc = "returned"
    /\ \E i \in 1..Len(tasks) :
        /\ tasks[i].pc = "done" /\ tasks[i].attempts = 1
        /\ tasks[i].def = registry[tasks[i].def.name]

---------------------------------------------------------------------------
(* Termination of the delivery tasks *)

(* A step of the i-th delivery goroutine *)
TaskStepOf(i) ==
    /\ i \in 1..Len(tasks)
    /\ TaskStart(i) \/ TaskRender(i) \/ TaskSleep(i) \/ TaskSend(i)

(* Run's own steps are taken, and in every delivery goroutine each HTTP    *)
(* exchange returns (http.Client has a timeout) and each sleep ends.       *)
LiveTasks ==
    /\ Spec
    /\ WF_vars(RunStep)
    /\ \A i \in 1..MaxNames : WF_vars(TaskStepOf(i))

(* The attempts the loop `attempt <= w.retryCount` allows *)
AllowedAttempts(t) == IF t.w.retryCount + 1 > 0 THEN t.w.retryCount + 1 ELSE 0

(* C31: every spawned delivery task terminates.  When each HTTP attempt    *)
(* returns and each sleep ends, the task reaches its final state, with     *)
(* success or failure logged, and at no time has it made more than         *)
(* retry.count + 1 attempts (none when retry.count is negative).           *)
C31_TasksTerminate ==
    /\ [](\A i \in 1..Len(tasks) : tasks[i].attempts <= AllowedAttempts(tasks[i]))
    /\ \A i \in 1..MaxNames :
          (i <= Len(tasks))
             ~> (i <= Len(tasks) /\ tasks[i].pc = "done"
                 /\ tasks[i].result \in {"sent", "failed", "renderfail", "createfail"})

(* A delivery has ended in failure after retry.count + 1 = 3 attempts *)
C31_Witness ==
    \E i \in 1..Len(tasks) :
        /\ tasks[i].pc = "done" /\ tasks[i].result = "failed"
        /\ tasks[i].w.retryCount = 2
        /\ tasks[i].attempts = 3
        /\ Len(tasks[i].sleeps) = 2

---------------------------------------------------------------------------
(* A registered definition whose retry.backoff is not a duration: the      *)
(* loader registers it before it fails to build its global dispatcher.     *)

BackoffRegistries ==
    {[n \in Names |->
         [name |-> n, type |-> IF n = "w1" THEN ty ELSE WebhookTypeAll,
          active |-> IF n = "w1" THEN ac ELSE TRUE, onlyOnError |-> FALSE,
          retry |-> IF n = "w1" THEN BadBackoff ELSE OneTry,
          url |-> PlainURL, headers |-> NoHeaders,
          body |-> NoBody]] : ty \in Types, ac \in BOOLEAN}

InitBackoff ==
    /\ registry \in BackoffRegistries
    /\ AuxIdle
    /\ RunIdle

SpecBackoff == InitBackoff /\ [][NextShared]_vars

(* retry.backoff of def is set and time.ParseDuration rejects it *)
Malformed(def) ==
    def.retry.set /\ def.retry.backoff # "" /\ ~ParseDuration(def.retry.backoff).ok

(* The registry with every retry setting replaced by the default *)
Repaired(reg) == [n \in DOMAIN reg |-> [reg[n] EXCEPT !.retry = NoRetry]]

(* C33: a registered definition with a malformed retry.backoff is accepted *)
(* by the construction of a per-job dispatcher (construction fails or      *)
(* succeeds as it would with a well-formed backoff), but every delivery    *)
(* task the per-job dispatcher spawns for it ends with a logged error      *)
(* before rendering and makes no HTTP attempt.                             *)
C33_MalformedBackoffFailsAtDelivery ==
    /\ cfg.state # "none"
          => ((cfg.state = "error")
                <=> ~NewWebhookFromConfig(cfg.errorNames, cfg.infoNames,
                                          Repaired(registry)).ok)
    /\ \A i \in 1..Len(tasks) :
          (tasks[i].kind = "perjob" /\ Malformed(tasks[i].def))
             => /\ tasks[i].attempts = 0
                /\ ~tasks[i].data.built
                /\ tasks[i].pc \in {"new", "done"}
                /\ tasks[i].pc = "done" => tasks[i].result = "createfail"

(* The per-job dispatcher was built with the malformed definition in its   *)
(* list; its task has ended without an attempt, its sibling has sent.      *)
C33_Witness ==
    /\ cfg.state = "built"
    /\ disp.kind = "perjob"
    /\ \E i, j \in 1..Len(tasks) :
        /\ Malformed(tasks[i].def) /\ tasks[i].def.active
        /\ tasks[i].result = "createfail" /\ tasks[i].attempts = 0
        /\ ~Malformed(tasks[j].def) /\ tasks[j].result = "sent"

---------------------------------------------------------------------------
(* C34: for one job completion each webhook definition is delivered by at  *)
(* most one delivery task, also when a name occurs more than once in the   *)
(* name lists of the per-job dispatcher: no two tasks spawned for the same *)
(* completion deliver the definition of the same name.                     *)
C34_OneTaskPerDefinition ==
    \A i, j \in 1..Len(tasks) :
        (i # j /\ tasks[i].ctx = tasks[j].ctx)
            => tasks[i].def.name # tasks[j].def.name

====
